---- MODULE Spec2Model ----
(***************************************************************************)
(* Amiga 500 keyboard to USB HID converter (Arduino Leonardo).             *)
(*                                                                         *)
(* Model of the sketch with MACRO_SAVE_VERSION 4 (the second sketch of     *)
(* Amiga500-USB-Keyboard-Leonardo.ino, lines 1479-2905): the wire decoder  *)
(* handleKeyboard, the key dispatch processKeyCode, the live and the macro *)
(* HID reports, macro recording, playback and the EEPROM store.            *)
(*                                                                         *)
(* The program state is one variable per global (or function static) of    *)
(* the sketch.  Every C function is an operator from a state record to a   *)
(* state record, so that a handler and all the calls it makes are one      *)
(* action.  loop() calls handleKeyboard() and playMacro() in turn: pc says *)
(* which of the two is called next.                                        *)
(***************************************************************************)
EXTENDS Integers, Sequences, FiniteSets, TLC

VARIABLES
    \* handleKeyboard's statics and the AVR registers it drives
    keyboardState, handshakeTimer, currentKeyCode, bitIndex,
    interruptsEnabled, ddrbSP,
    \* HID reports
    keyReport, prevkeyReport, macroKeyReport, macroPrevkeyReport, multimediaKeys,
    \* function layer and macro engine
    functionMode, ignoreNextRelease,
    recording, recordingSlot, macro_looping, recordingMacroSlot, recordingMacroIndex,
    macros, macroPlayStatus, robotMacroMode, lastMacroTime,
    \* persistent store and clock
    eeprom, now,
    \* position in loop()
    pc,
    \* environment: the pins as read by the last poll, the keyboard, budgets
    pinb, kbBits, kbByte, kbScript, kbKeys, kbQuiet,
    bytesLeft, resetsLeft, ticksLeft, bootsLeft,
    \* observation of the last action: reports handed to the USB driver,
    \* last report the host holds per report ID, indices used on keyTable,
    \* calls of processKeyCode; keys whose last key-down the function layer
    \* took and whose key-up has not been dispatched since; calls of
    \* keyPressMacro and keyReleaseMacro; the events record_key has taken
    \* since the slot of the current recording was chosen; the elements
    \* macros[slot].keyEvents[i] read or written, as pairs <<slot, i>>
    hidLog, host, tableIdx, dispatched, fnConsumed, played, session, eventIdx,
    \* the queue sketch: key events waiting for consumeKeys and releases
    \* waiting for consumeDelayKeys
    keyQueue, delayedKeyQueue

progVars == <<keyboardState, handshakeTimer, currentKeyCode, bitIndex,
              interruptsEnabled, ddrbSP,
              keyReport, prevkeyReport, macroKeyReport, macroPrevkeyReport,
              multimediaKeys, functionMode, ignoreNextRelease,
              recording, recordingSlot, macro_looping, recordingMacroSlot,
              recordingMacroIndex, macros, macroPlayStatus, robotMacroMode,
              lastMacroTime, eeprom, now, hidLog, host, tableIdx, dispatched,
              fnConsumed, played, session, eventIdx>>

envVars == <<pinb, kbBits, kbByte, kbScript, kbKeys, kbQuiet,
             bytesLeft, resetsLeft, ticksLeft, bootsLeft>>

queues == <<keyQueue, delayedKeyQueue>>

vars == <<progVars, pc, envVars, queues>>

----------------------------------------------------------------------------
(* Bounds of the model.                                                    *)

\* Bytes the keyboard may send after its script, chosen freely from kbKeys.
MaxBytes == 3
\* Assertions of the reset line.
MaxResets == 1
\* Clock advances of MACRO_DELAY ms between two polls.
MaxTicks == 2
\* Power cycles.
MaxBoots == 1
\* bytes of its choice the keyboard sends after a script
MaxFreeBytes == 1
\* MACRO_DELAY advances of the clock while a macro is recorded and played
MaxMacroTicks == 2
\* Events per macro slot.  The sketch sets 32 (line 1494); the model keeps the
\* array, its serialisation and the capacity check, with a shorter array.
MAX_MACRO_LENGTH == 2

----------------------------------------------------------------------------
(* Program constants.                                                      *)

MACRO_SLOTS == 5
MACRO_DELAY == 20
CONCURENT_MACROS == 2
MAX_CONCURENT_MACROS == 2
MACRO_ROBOT_MODE_DEFAULT == FALSE
MACRO_SAVE_VERSION == 4
PROGRAMMATIC_KEYS_RELEASE == 2
EEPROM_START_ADDRESS == 0
SIZE_OF_EEPROM == 1024
MIN_HANDSHAKE_WAIT_TIME == 65

HID_ID_KEYBOARD == 2
HID_ID_MULTIMEDIA == 5
HID_ID_MACROVKEYS == 6

AMIGA_KEY_NUMPAD_0 == 15
AMIGA_KEY_R == 19
AMIGA_KEY_A == 32
AMIGA_KEY_S == 33
AMIGA_KEY_D == 34
AMIGA_KEY_F == 35
AMIGA_KEY_G == 36
AMIGA_KEY_H == 37
AMIGA_KEY_M == 55
AMIGA_KEY_SPACE == 64
AMIGA_KEY_BACKSPACE == 65
AMIGA_KEY_RETURN == 68
AMIGA_KEY_DELETE == 70
AMIGA_KEY_ARROW_UP == 76
AMIGA_KEY_ARROW_DOWN == 77
AMIGA_KEY_ARROW_RIGHT == 78
AMIGA_KEY_ARROW_LEFT == 79
AMIGA_KEY_F1 == 80
AMIGA_KEY_F2 == 81
AMIGA_KEY_F3 == 82
AMIGA_KEY_F4 == 83
AMIGA_KEY_F5 == 84
AMIGA_KEY_F6 == 85
AMIGA_KEY_F7 == 86
AMIGA_KEY_F8 == 87
AMIGA_KEY_F9 == 88
AMIGA_KEY_F10 == 89
AMIGA_KEY_NUMPAD_NUMLOCK_LPAREN == 90
AMIGA_KEY_NUMPAD_SCRLOCK_RPAREN == 91
AMIGA_KEY_NUMPAD_ASTERISK_PTRSCR == 93
AMIGA_KEY_HELP == 95
AMIGA_KEY_SHIFT_LEFT == 96
AMIGA_KEY_SHIFT_RIGHT == 97
AMIGA_KEY_CAPS_LOCK == 98
AMIGA_KEY_CONTROL_LEFT == 99
AMIGA_KEY_ALT_LEFT == 100
AMIGA_KEY_ALT_RIGHT == 101
AMIGA_KEY_AMIGA_LEFT == 102
AMIGA_KEY_AMIGA_RIGHT == 103
AMIGA_KEY_COUNT == 104

MMKEY_NEXT_TRACK == 1
MMKEY_PREV_TRACK == 2
MMKEY_STOP == 4
MMKEY_PLAY_PAUSE == 8
MMKEY_MUTE == 16
MMKEY_VOLUME_UP == 32
MMKEY_VOLUME_DOWN == 64

\* keyTable[AMIGA_KEY_COUNT]: Amiga key code -> HID usage (or modifier bit).
\* TLA+ sequences start at 1: entry k of the C array is keyTable[k + 1].
keyTable ==
  <<53, 30, 31, 32, 33, 34, 35, 36, 37, 38, 39, 45, 46, 49, 0, 98,
    20, 26, 8, 21, 23, 28, 24, 12, 18, 19, 47, 48, 0, 89, 90, 91,
    4, 22, 7, 9, 10, 11, 13, 14, 15, 51, 52, 50, 0, 92, 93, 94,
    100, 29, 27, 6, 25, 5, 17, 16, 54, 55, 56, 0, 99, 95, 96, 97,
    44, 42, 43, 88, 40, 41, 76, 68, 69, 70, 86, 0, 82, 81, 79, 80,
    58, 59, 60, 61, 62, 63, 64, 65, 66, 67, 83, 71, 84, 85, 87, 0,
    2, 32, 0, 1, 4, 64, 8, 16>>

specialKeys == {AMIGA_KEY_HELP, AMIGA_KEY_CAPS_LOCK,
                AMIGA_KEY_NUMPAD_NUMLOCK_LPAREN, AMIGA_KEY_NUMPAD_SCRLOCK_RPAREN}

----------------------------------------------------------------------------
(* Machine integers.  uint8_t is a number in 0..255.  uint32_t is a pair   *)
(* of 16-bit halves, so that the clock and the recorded delays keep their  *)
(* 32-bit width and wrap as unsigned C arithmetic does.                    *)

W8 == 256
W16 == 256 * 256

Bits(n) == {i \in 0..7 : (n \div (2^i)) % 2 = 1}
BitVal(S, i) == IF i \in S THEN 2^i ELSE 0
FromBits(S) == BitVal(S, 0) + BitVal(S, 1) + BitVal(S, 2) + BitVal(S, 3)
             + BitVal(S, 4) + BitVal(S, 5) + BitVal(S, 6) + BitVal(S, 7)
\* a | b and a & ~b on uint8_t
BitOr(a, b) == FromBits(Bits(a) \cup Bits(b))
BitAndNot(a, b) == FromBits(Bits(a) \ Bits(b))

U32(n) == [hi |-> (n \div W16) % W16, lo |-> n % W16]
Zero32 == U32(0)
\* a + n, a - b and a >= b on uint32_t (n < 2^16)
Add32(a, n) == [hi |-> (a.hi + ((a.lo + n) \div W16)) % W16, lo |-> (a.lo + n) % W16]
Sub32(a, b) ==
    LET borrow == IF a.lo < b.lo THEN 1 ELSE 0
    IN  [hi |-> (a.hi - b.hi - borrow + 2 * W16) % W16, lo |-> (a.lo - b.lo + W16) % W16]
Geq32(a, b) == a.hi > b.hi \/ (a.hi = b.hi /\ a.lo >= b.lo)
\* a * 1000 on uint32_t
Mul1000(a) == [hi |-> (a.hi * 1000 + ((a.lo * 1000) \div W16)) % W16,
               lo |-> (a.lo * 1000) % W16]
\* the four bytes of a uint32_t as the AVR stores them (little endian)
Bytes32(a) == <<a.lo % W8, a.lo \div W8, a.hi % W8, a.hi \div W8>>
FromBytes32(b) == [hi |-> b[3] + W8 * b[4], lo |-> b[1] + W8 * b[2]]

----------------------------------------------------------------------------
(* KeyReport (Keyboard.h): modifiers, reserved, keys[6].                   *)

EmptyReport == [modifiers |-> 0, reserved |-> 0, keys |-> <<0, 0, 0, 0, 0, 0>>]
\* memset(&report, 0xFF, sizeof(KeyReport)) of setup()
FilledReport == [modifiers |-> 255, reserved |-> 255,
                 keys |-> <<255, 255, 255, 255, 255, 255>>]
\* what the host holds under a report ID before anything was transmitted
NoReport == [modifiers |-> -1, reserved |-> -1, keys |-> <<>>]

\* first index (1..6) of a slot holding v, 0 if none: the scan of keyPress,
\* keystroke and keyPressMacro
FirstSlot(keys, v) ==
    IF \E i \in 1..6 : keys[i] = v
    THEN CHOOSE i \in 1..6 : keys[i] = v /\ \A j \in 1..(i - 1) : keys[j] # v
    ELSE 0

\* HID().SendReport(id, data, len): the report reaches the USB driver
Transmit(s, id, data) ==
    [s EXCEPT !.hidLog = Append(@, [id |-> id, report |-> data]),
              !.host = [@ EXCEPT ![id] = data]]

resetReport(s) == [s EXCEPT !.keyReport = [@ EXCEPT !.modifiers = 0,
                                                   !.keys = <<0, 0, 0, 0, 0, 0>>]]

sendReportAlways(s) ==
    [Transmit(s, HID_ID_KEYBOARD, s.keyReport) EXCEPT !.prevkeyReport = s.keyReport]

sendReport(s) ==
    IF s.keyReport # s.prevkeyReport
    THEN [Transmit(s, HID_ID_KEYBOARD, s.keyReport) EXCEPT !.prevkeyReport = s.keyReport]
    ELSE s

resetReportMacro(s) == [s EXCEPT !.macroKeyReport = [@ EXCEPT !.modifiers = 0,
                                                             !.keys = <<0, 0, 0, 0, 0, 0>>]]

sendReportMacro(s) ==
    IF s.macroKeyReport # s.macroPrevkeyReport
    THEN [Transmit(s, HID_ID_MACROVKEYS, s.macroKeyReport)
            EXCEPT !.macroPrevkeyReport = s.macroKeyReport]
    ELSE s

releaseAll(s) == sendReport(resetReport(s))

releaseAllMacro(s) == sendReportMacro(resetReportMacro(s))

\* delay(ms): the clock moves on while the sketch waits
delay(s, ms) == [s EXCEPT !.now = Add32(@, ms)]

sendMultimediaKey(s, keyBit) ==
    LET k == BitOr(s.multimediaKeys, keyBit)
    IN  [Transmit(s, HID_ID_MULTIMEDIA, k) EXCEPT !.multimediaKeys = k]

releaseMultimediaKey(s, keyBit) ==
    LET k == BitAndNot(s.multimediaKeys, keyBit)
    IN  [Transmit(s, HID_ID_MULTIMEDIA, k) EXCEPT !.multimediaKeys = k]

multimediaKeystroke(s, keyCode) ==
    releaseMultimediaKey(delay(sendMultimediaKey(s, keyCode), PROGRAMMATIC_KEYS_RELEASE),
                         keyCode)

isSpecialKey(keyCode) == keyCode \in specialKeys

isAmigaModifierKey(keyCode) ==
    keyCode \in {AMIGA_KEY_SHIFT_LEFT, AMIGA_KEY_SHIFT_RIGHT, AMIGA_KEY_CONTROL_LEFT,
                 AMIGA_KEY_ALT_LEFT, AMIGA_KEY_ALT_RIGHT, AMIGA_KEY_AMIGA_LEFT,
                 AMIGA_KEY_AMIGA_RIGHT}

macroSlotFromKeyCode(keyCode) ==
    LET slot == (keyCode - AMIGA_KEY_F6 + W8) % W8
    IN  IF slot >= MACRO_SLOTS THEN MACRO_SLOTS - 1 ELSE slot

----------------------------------------------------------------------------
(* Macro storage.  MacroKeyEvent is {uint8_t keyCode; bool isPressed;      *)
(* uint32_t delay}: 6 bytes, isPressed kept as the byte the memory holds.  *)

SIZEOF_MacroKeyEvent == 6
SIZEOF_size_t == 2
MOD_ADLER == 65521

ZeroEvent == [keyCode |-> 0, isPressed |-> 0, delay |-> Zero32]
ZeroMacro == [keyEvents |-> [i \in 1..MAX_MACRO_LENGTH |-> ZeroEvent], length |-> 0]
ZeroPlayStatus == [playing |-> FALSE, loop |-> FALSE, macroIndex |-> 0,
                   playStartTime |-> Zero32]
Slots == 0..(MACRO_SLOTS - 1)

\* sizeof(macros)
SizeOfMacros == MACRO_SLOTS * (MAX_MACRO_LENGTH * SIZEOF_MacroKeyEvent + 1)

\* sizeof of a macros array ms, from its dimensions (SizeOfMacros for the
\* array of the program)
SizeOf(ms) ==
    Cardinality(DOMAIN ms) * (Len(ms[0].keyEvents) * SIZEOF_MacroKeyEvent + 1)

\* keyEvents[i] of a slot (i from 0).  An index past the array reads whatever
\* follows it in memory: the byte s.oob drawn for the step.
EventAt(s, slot, i) ==
    IF i < MAX_MACRO_LENGTH
    THEN s.macros[slot].keyEvents[i + 1]
    ELSE [keyCode |-> s.oob, isPressed |-> s.oob, delay |-> U32(s.oob)]

\* keyTable[k], with the index noted.  An index past the table reads the byte
\* s.oob drawn for the step.
KeyTableAt(s, k) == IF k < AMIGA_KEY_COUNT THEN keyTable[k + 1] ELSE s.oob
NoteIndex(s, k) == [s EXCEPT !.tableIdx = @ \cup {k}]
\* an access to macros[slot].keyEvents[i] (i from 0), noted
NoteEvent(s, slot, i) == [s EXCEPT !.eventIdx = @ \cup {<<slot, i>>}]
\* a call of keyPressMacro or keyReleaseMacro, noted in call order
NotePlayed(s, k, isPressed) ==
    [s EXCEPT !.played = Append(@, [code |-> k, pressed |-> isPressed])]

EventBytes(e) == <<e.keyCode, e.isPressed>> \o Bytes32(e.delay)

RECURSIVE EventsBytes(_, _)
EventsBytes(events, j) ==
    IF j > Len(events) THEN <<>>
    ELSE EventBytes(events[j]) \o EventsBytes(events, j + 1)

\* the bytes of the macros array, as memory holds them
RECURSIVE MacroBytes(_, _)
MacroBytes(ms, i) ==
    IF i >= Cardinality(DOMAIN ms) THEN <<>>
    ELSE EventsBytes(ms[i].keyEvents, 1) \o <<ms[i].length>> \o MacroBytes(ms, i + 1)

\* one pass of the body of adler32's for loop: a and b after the byte
adlerStep(ab, byte) ==
    LET A1 == (ab.lo + byte) % MOD_ADLER
    IN  [hi |-> (ab.hi + A1) % MOD_ADLER, lo |-> A1]

\* the for loop of adler32 over data[lo..hi], in index order, from the sums
\* ab; the range is walked by halves (the test on the sums of the first half
\* evaluates them before the second half starts)
RECURSIVE adlerLoop(_, _, _, _)
adlerLoop(data, lo, hi, ab) ==
    IF lo > hi THEN ab
    ELSE IF lo = hi THEN adlerStep(ab, data[lo])
    ELSE LET mid == (lo + hi) \div 2
             left == adlerLoop(data, lo, mid, ab)
         IN  IF left.lo < MOD_ADLER THEN adlerLoop(data, mid + 1, hi, left) ELSE left

\* adler32(macros, sizeof(macros)): (B << 16) | A
adler32(ms) ==
    LET data == MacroBytes(ms, 0)
    IN  adlerLoop(data, 1, Len(data), [hi |-> 0, lo |-> 1])

\* The store is the sequence of the bytes written so far, from address 0; a
\* byte never written reads 0xFF (erased EEPROM).
EepromGet(e, addr) == IF addr < Len(e) THEN e[addr + 1] ELSE 255
EepromPut(e, addr, bytes) ==
    LET n == IF Len(e) > addr + Len(bytes) THEN Len(e) ELSE addr + Len(bytes)
    IN  [i \in 1..n |-> IF i > addr /\ i <= addr + Len(bytes) THEN bytes[i - addr]
                        ELSE IF i <= Len(e) THEN e[i] ELSE 255]
EepromRead(e, addr, n) == [i \in 1..n |-> EepromGet(e, addr + i - 1)]

cleanMacros(s) == [s EXCEPT !.macros = [i \in Slots |-> ZeroMacro]]

\* a save whose size test leaves out the version byte, the size field and
\* the checksum
saveMacrosToEEPROMNoHeader(s) ==
    IF SizeOf(s.macros) > SIZE_OF_EEPROM
    THEN s
    ELSE [s EXCEPT !.eeprom =
            EepromPut(@, EEPROM_START_ADDRESS,
                      <<MACRO_SAVE_VERSION, SizeOf(s.macros) % W8, SizeOf(s.macros) \div W8>>
                      \o MacroBytes(s.macros, 0)
                      \o Bytes32(adler32(s.macros)))]

saveMacrosToEEPROM(s) ==
    IF SizeOf(s.macros) + SIZEOF_size_t + 1 + 4 > SIZE_OF_EEPROM
    THEN s
    ELSE [s EXCEPT !.eeprom =
            EepromPut(@, EEPROM_START_ADDRESS,
                      <<MACRO_SAVE_VERSION, SizeOf(s.macros) % W8, SizeOf(s.macros) \div W8>>
                      \o MacroBytes(s.macros, 0)
                      \o Bytes32(adler32(s.macros)))]

\* a read of an event that takes only the low half of its delay
StoredEventNarrowDelay(e, addr) ==
    [keyCode |-> EepromGet(e, addr), isPressed |-> EepromGet(e, addr + 1),
     delay |-> FromBytes32(EepromRead(e, addr + 2, 2) \o <<0, 0>>)]

\* the macros array as the two loops of loadMacrosFromEEPROM fill it
StoredEvent(e, addr) ==
    [keyCode |-> EepromGet(e, addr), isPressed |-> EepromGet(e, addr + 1),
     delay |-> FromBytes32(EepromRead(e, addr + 2, 4))]
StoredMacros(e) ==
    LET base(i) == EEPROM_START_ADDRESS + 1 + SIZEOF_size_t
                   + i * (MAX_MACRO_LENGTH * SIZEOF_MacroKeyEvent + 1)
    IN  [i \in Slots |->
          [keyEvents |-> [j \in 1..MAX_MACRO_LENGTH |->
                            StoredEvent(e, base(i) + (j - 1) * SIZEOF_MacroKeyEvent)],
           length |-> EepromGet(e, base(i) + MAX_MACRO_LENGTH * SIZEOF_MacroKeyEvent)]]

\* a load that compares version and size only
LoadAcceptsNoChecksum(e) ==
    /\ EepromGet(e, EEPROM_START_ADDRESS) = MACRO_SAVE_VERSION
    /\ EepromGet(e, EEPROM_START_ADDRESS + 1)
         + W8 * EepromGet(e, EEPROM_START_ADDRESS + 2) = SizeOfMacros

\* the value loadMacrosFromEEPROM returns on store e
LoadAccepts(e) ==
    /\ EepromGet(e, EEPROM_START_ADDRESS) = MACRO_SAVE_VERSION
    /\ EepromGet(e, EEPROM_START_ADDRESS + 1)
         + W8 * EepromGet(e, EEPROM_START_ADDRESS + 2) = SizeOfMacros
    /\ FromBytes32(EepromRead(e, EEPROM_START_ADDRESS + 1 + SIZEOF_size_t + SizeOfMacros, 4))
         = adler32(StoredMacros(e))

\* a load that keeps what it has read when the checksum differs
loadMacrosFromEEPROMKeepsRead(s) ==
    IF LoadAcceptsNoChecksum(s.eeprom)
    THEN [s EXCEPT !.macros = StoredMacros(s.eeprom)]
    ELSE cleanMacros(s)

loadMacrosFromEEPROM(s) ==
    IF LoadAccepts(s.eeprom)
    THEN [s EXCEPT !.macros = StoredMacros(s.eeprom)]
    ELSE cleanMacros(s)

----------------------------------------------------------------------------
(* Macro playback control.                                                 *)

nMacrosPlaying(s) == Cardinality({i \in Slots : s.macroPlayStatus[i].playing})

isMacroPlaying(s) == \E i \in Slots : s.macroPlayStatus[i].playing

stopAllMacros(s) ==
    releaseAllMacro(
      [s EXCEPT !.macroPlayStatus =
         [i \in Slots |-> IF @[i].playing THEN ZeroPlayStatus ELSE @[i]]])

\* a playMacroSlot that starts a slot however many are playing
playMacroSlotUncapped(s, slot) ==
    IF ~s.recording /\ ~s.macroPlayStatus[slot].playing
    THEN [s EXCEPT !.macroPlayStatus[slot] =
            [playing |-> TRUE, loop |-> s.macro_looping, macroIndex |-> 0,
             playStartTime |-> s.now]]
    ELSE releaseAllMacro([s EXCEPT !.macroPlayStatus[slot] = ZeroPlayStatus])

\* a playMacroSlot whose stop branch leaves the macro report as it is
playMacroSlotNoRelease(s, slot) ==
    IF ~s.recording /\ ~s.macroPlayStatus[slot].playing
       /\ nMacrosPlaying(s) < CONCURENT_MACROS
    THEN [s EXCEPT !.macroPlayStatus[slot] =
            [playing |-> TRUE, loop |-> s.macro_looping, macroIndex |-> 0,
             playStartTime |-> s.now]]
    ELSE [s EXCEPT !.macroPlayStatus[slot] = ZeroPlayStatus]

playMacroSlot(s, slot) ==
    IF ~s.recording /\ ~s.macroPlayStatus[slot].playing
       /\ nMacrosPlaying(s) < CONCURENT_MACROS
    THEN [s EXCEPT !.macroPlayStatus[slot] =
            [playing |-> TRUE, loop |-> s.macro_looping, macroIndex |-> 0,
             playStartTime |-> s.now]]
    ELSE releaseAllMacro([s EXCEPT !.macroPlayStatus[slot] = ZeroPlayStatus])

resetMacros(s) == saveMacrosToEEPROM(cleanMacros(stopAllMacros(s)))

----------------------------------------------------------------------------
(* Recording.                                                              *)

\* a start of recording that leaves playback running
startRecordingKeepsPlayback(s) ==
    IF ~s.recording
    THEN [s EXCEPT !.recordingMacroIndex = 0, !.recordingMacroSlot = 0,
                   !.recordingSlot = FALSE, !.recording = TRUE,
                   !.session = <<>>]
    ELSE s

startRecording(s) ==
    IF ~s.recording
    THEN [stopAllMacros(s) EXCEPT !.recordingMacroIndex = 0, !.recordingMacroSlot = 0,
                                  !.recordingSlot = FALSE, !.recording = TRUE,
                                  !.session = <<>>]
    ELSE s

\* the loop of stopRecording: keyEvents[i].delay -= firstDelay for i < length
NormalizeDelays(m) ==
    LET firstDelay == m.keyEvents[1].delay
    IN  [m EXCEPT !.keyEvents =
           [i \in 1..MAX_MACRO_LENGTH |->
              IF i <= m.length THEN [@[i] EXCEPT !.delay = Sub32(@, firstDelay)]
              ELSE @[i]]]

\* the elements stopRecording reads and writes: keyEvents[0] for firstDelay,
\* keyEvents[i] for i < length
NormalizedIdx(s) ==
    {<<s.recordingMacroSlot, i>> :
        i \in {0} \cup 0..(s.macros[s.recordingMacroSlot].length - 1)}

\* a stop of recording that does not write the store
stopRecordingNoSave(s) ==
    IF s.recording
    THEN [s EXCEPT !.recording = FALSE, !.recordingSlot = FALSE,
                   !.macros[s.recordingMacroSlot] = NormalizeDelays(@),
                   !.eventIdx = @ \cup NormalizedIdx(s),
                   !.functionMode = FALSE]
    ELSE s

stopRecording(s) ==
    IF s.recording
    THEN saveMacrosToEEPROM(
           [s EXCEPT !.recording = FALSE, !.recordingSlot = FALSE,
                     !.macros[s.recordingMacroSlot] = NormalizeDelays(@),
                     !.eventIdx = @ \cup NormalizedIdx(s),
                     !.functionMode = FALSE])
    ELSE s

\* a record_key that does not stop the recording when the slot is full
record_keyNoStop(s, keycode, isPressed) ==
    IF s.recording /\ s.recordingSlot /\ s.recordingMacroIndex < MAX_MACRO_LENGTH
    THEN [s EXCEPT
            !.macros[s.recordingMacroSlot].keyEvents[s.recordingMacroIndex + 1] =
                [keyCode |-> keycode,
                 isPressed |-> IF isPressed THEN 1 ELSE 0,
                 delay |-> s.now],
            !.macros[s.recordingMacroSlot].length = s.recordingMacroIndex + 1,
            !.recordingMacroIndex = s.recordingMacroIndex + 1,
            !.session = Append(@, [keyCode |-> keycode,
                                   isPressed |-> IF isPressed THEN 1 ELSE 0,
                                   delay |-> s.now]),
            !.eventIdx = @ \cup {<<s.recordingMacroSlot, s.recordingMacroIndex>>}]
    ELSE s

record_key(s, keycode, isPressed) ==
    IF s.recording /\ s.recordingSlot /\ s.recordingMacroIndex < MAX_MACRO_LENGTH
    THEN LET idx == s.recordingMacroIndex
             s1 == [s EXCEPT
                      !.macros[s.recordingMacroSlot].keyEvents[idx + 1] =
                          [keyCode |-> keycode,
                           isPressed |-> IF isPressed THEN 1 ELSE 0,
                           delay |-> s.now],
                      !.macros[s.recordingMacroSlot].length = idx + 1,
                      !.recordingMacroIndex = idx + 1,
                      !.session = Append(@, [keyCode |-> keycode,
                                             isPressed |-> IF isPressed THEN 1 ELSE 0,
                                             delay |-> s.now]),
                      !.eventIdx = @ \cup {<<s.recordingMacroSlot, idx>>}]
         IN  IF idx + 1 >= MAX_MACRO_LENGTH THEN stopRecording(s1) ELSE s1
    ELSE s

----------------------------------------------------------------------------
(* Live keys: the report with ID HID_ID_KEYBOARD.                          *)

\* a press that takes the last key slot when none is free
keyPressEvicts(s, keyCode) ==
    LET s1 == NoteIndex(record_key(s, keyCode, TRUE), keyCode)
        hidCode == KeyTableAt(s, keyCode)
        slot == FirstSlot(s1.keyReport.keys, 0)
    IN  sendReport(
          IF isAmigaModifierKey(keyCode)
          THEN [s1 EXCEPT !.keyReport.modifiers = BitOr(@, hidCode)]
          ELSE IF slot # 0 THEN [s1 EXCEPT !.keyReport.keys[slot] = hidCode]
          ELSE [s1 EXCEPT !.keyReport.keys[6] = hidCode])

keyPress(s, keyCode) ==
    LET s1 == NoteIndex(record_key(s, keyCode, TRUE), keyCode)
        hidCode == KeyTableAt(s, keyCode)
        slot == FirstSlot(s1.keyReport.keys, 0)
    IN  sendReport(
          IF isAmigaModifierKey(keyCode)
          THEN [s1 EXCEPT !.keyReport.modifiers = BitOr(@, hidCode)]
          ELSE IF slot # 0 THEN [s1 EXCEPT !.keyReport.keys[slot] = hidCode]
          ELSE s1)

\* a release that clears key slots only, also for a modifier key
keyReleaseSlotsOnly(s, keyCode) ==
    LET s1 == NoteIndex(record_key(s, keyCode, FALSE), keyCode)
        hidCode == KeyTableAt(s, keyCode)
    IN  sendReport([s1 EXCEPT !.keyReport.keys =
                      [i \in 1..6 |-> IF @[i] = hidCode THEN 0 ELSE @[i]]])

keyRelease(s, keyCode) ==
    LET s1 == NoteIndex(record_key(s, keyCode, FALSE), keyCode)
        hidCode == KeyTableAt(s, keyCode)
    IN  sendReport(
          IF isAmigaModifierKey(keyCode)
          THEN [s1 EXCEPT !.keyReport.modifiers = BitAndNot(@, hidCode)]
          ELSE [s1 EXCEPT !.keyReport.keys =
                  [i \in 1..6 |-> IF @[i] = hidCode THEN 0 ELSE @[i]]])

keystroke(s, keyCode, modifiers) ==
    LET originalModifiers == s.keyReport.modifiers
        slot == FirstSlot(s.keyReport.keys, 0)
    IN  IF slot = 0 THEN s
        ELSE LET s1 == sendReport([s EXCEPT !.keyReport.keys[slot] = keyCode,
                                            !.keyReport.modifiers = modifiers])
                 s2 == delay(s1, PROGRAMMATIC_KEYS_RELEASE)
             IN  sendReport([s2 EXCEPT !.keyReport.keys[slot] = 0,
                                       !.keyReport.modifiers = originalModifiers])

----------------------------------------------------------------------------
(* Macro keys: the report with ID HID_ID_MACROVKEYS.                       *)

\* a macro press that puts the key into the live report
keyPressMacroOnLiveReport(s, keyCode) ==
    LET s1 == NotePlayed(NoteIndex(s, keyCode), keyCode, TRUE)
        hidCode == KeyTableAt(s, keyCode)
        slot == FirstSlot(s1.keyReport.keys, 0)
    IN  sendReportMacro(
          IF isAmigaModifierKey(keyCode)
          THEN [s1 EXCEPT !.keyReport.modifiers = BitOr(@, hidCode)]
          ELSE IF slot # 0 THEN [s1 EXCEPT !.keyReport.keys[slot] = hidCode]
          ELSE s1)

keyPressMacro(s, keyCode) ==
    LET s1 == NotePlayed(NoteIndex(s, keyCode), keyCode, TRUE)
        hidCode == KeyTableAt(s, keyCode)
        slot == FirstSlot(s1.macroKeyReport.keys, 0)
    IN  sendReportMacro(
          IF isAmigaModifierKey(keyCode)
          THEN [s1 EXCEPT !.macroKeyReport.modifiers = BitOr(@, hidCode)]
          ELSE IF slot # 0 THEN [s1 EXCEPT !.macroKeyReport.keys[slot] = hidCode]
          ELSE s1)

keyReleaseMacro(s, keyCode) ==
    LET s1 == NotePlayed(NoteIndex(s, keyCode), keyCode, FALSE)
        hidCode == KeyTableAt(s, keyCode)
    IN  sendReportMacro(
          IF isAmigaModifierKey(keyCode)
          THEN [s1 EXCEPT !.macroKeyReport.modifiers = BitAndNot(@, hidCode)]
          ELSE [s1 EXCEPT !.macroKeyReport.keys =
                  [i \in 1..6 |-> IF @[i] = hidCode THEN 0 ELSE @[i]]])

----------------------------------------------------------------------------
(* Key dispatch.                                                           *)

handleFunctionModeKey(s, keyCode) ==
    LET s1 == [s EXCEPT !.ignoreNextRelease = keyCode,
                        !.fnConsumed = @ \cup {keyCode}]
    IN  CASE keyCode = AMIGA_KEY_F1 -> keystroke(s1, 68, 0)
          [] keyCode = AMIGA_KEY_F2 -> keystroke(s1, 69, 0)
          [] keyCode = AMIGA_KEY_NUMPAD_ASTERISK_PTRSCR -> keystroke(s1, 70, 0)
          [] keyCode = AMIGA_KEY_NUMPAD_0 -> keystroke(s1, 73, 0)
          [] keyCode = AMIGA_KEY_F3 -> startRecording(s1)
          [] keyCode = AMIGA_KEY_F4 -> stopRecording(s1)
          [] keyCode = AMIGA_KEY_F5 -> [s1 EXCEPT !.macro_looping = ~@]
          [] keyCode = AMIGA_KEY_BACKSPACE -> stopAllMacros(s1)
          [] keyCode = AMIGA_KEY_DELETE -> resetMacros(s1)
          [] keyCode = AMIGA_KEY_R -> [s1 EXCEPT !.robotMacroMode = ~@]
          [] keyCode \in AMIGA_KEY_F6..AMIGA_KEY_F10 ->
                playMacroSlot(s1, macroSlotFromKeyCode(keyCode))
          [] keyCode = AMIGA_KEY_ARROW_UP -> multimediaKeystroke(s1, MMKEY_VOLUME_UP)
          [] keyCode = AMIGA_KEY_ARROW_DOWN -> multimediaKeystroke(s1, MMKEY_VOLUME_DOWN)
          [] keyCode = AMIGA_KEY_ARROW_RIGHT -> multimediaKeystroke(s1, MMKEY_NEXT_TRACK)
          [] keyCode = AMIGA_KEY_ARROW_LEFT -> multimediaKeystroke(s1, MMKEY_PREV_TRACK)
          [] keyCode = AMIGA_KEY_RETURN -> multimediaKeystroke(s1, MMKEY_PLAY_PAUSE)
          [] keyCode = AMIGA_KEY_SPACE -> multimediaKeystroke(s1, MMKEY_STOP)
          [] keyCode = AMIGA_KEY_M -> multimediaKeystroke(s1, MMKEY_MUTE)
          [] OTHER -> s1

\* processKeyCode after its range check
processValidKeyCode(s, keyCode, isPressed) ==
    IF s.ignoreNextRelease > 0 /\ s.ignoreNextRelease = keyCode /\ ~isPressed
    THEN [s EXCEPT !.ignoreNextRelease = 0]
    ELSE IF keyCode = AMIGA_KEY_HELP
    THEN [s EXCEPT !.functionMode = isPressed]
    ELSE IF isPressed /\ keyCode = AMIGA_KEY_CAPS_LOCK
    THEN keystroke(s, 57, 0)
    ELSE IF isPressed /\ keyCode = AMIGA_KEY_NUMPAD_NUMLOCK_LPAREN
    THEN keystroke(s, 83, 0)
    ELSE IF isPressed /\ keyCode = AMIGA_KEY_NUMPAD_SCRLOCK_RPAREN
    THEN keystroke(s, 71, 0)
    ELSE IF isPressed /\ s.functionMode
    THEN handleFunctionModeKey(s, keyCode)
    ELSE IF isPressed /\ s.recording /\ ~s.recordingSlot
    THEN [(IF keyCode >= AMIGA_KEY_F6 /\ keyCode <= AMIGA_KEY_F10
           THEN [s EXCEPT !.recordingMacroSlot = macroSlotFromKeyCode(keyCode),
                          !.macros[macroSlotFromKeyCode(keyCode)] = ZeroMacro,
                          !.recordingMacroIndex = 0,
                          !.recordingSlot = TRUE,
                          !.session = <<>>,
                          !.eventIdx = @ \cup {<<macroSlotFromKeyCode(keyCode), 0>>}]
           ELSE s)
          EXCEPT !.ignoreNextRelease = keyCode]
    ELSE IF isSpecialKey(keyCode) THEN s
    ELSE IF isPressed THEN keyPress(s, keyCode)
    ELSE keyRelease(s, keyCode)

\* a dispatcher without the range check on the key code
processKeyCodeUnchecked(s, keyCode, isPressed) ==
    processValidKeyCode(
      [s EXCEPT !.dispatched = Append(@, [code |-> keyCode, pressed |-> isPressed]),
                !.fnConsumed = @ \ {keyCode}],
      keyCode, isPressed)

processKeyCode(s, keyCode, isPressed) ==
    LET s1 == [s EXCEPT !.dispatched = Append(@, [code |-> keyCode, pressed |-> isPressed]),
                        !.fnConsumed = @ \ {keyCode}]
    IN  IF ~(keyCode < AMIGA_KEY_COUNT) THEN s1
        ELSE processValidKeyCode(s1, keyCode, isPressed)

----------------------------------------------------------------------------
(* playMacro: one playback tick.                                           *)

\* a nextDelay that makes every event due at once
NextDelayNone(s, slot) == Zero32

\* nextDelay of playMacro for the slot's current index
NextDelay(s, slot) ==
    IF s.robotMacroMode
    THEN U32(s.macroPlayStatus[slot].macroIndex * MACRO_DELAY)
    ELSE EventAt(s, slot, s.macroPlayStatus[slot].macroIndex).delay

\* a while loop that reads the delay of the next element without the test
\* of the index against the slot's length
RECURSIVE playEventsReadsAhead(_, _, _)
playEventsReadsAhead(s, slot, nextDelay) ==
    LET st == s.macroPlayStatus[slot]
    IN  IF st.macroIndex < s.macros[slot].length
           /\ Geq32(Sub32(s.now, st.playStartTime), nextDelay)
        THEN LET e == EventAt(s, slot, st.macroIndex)
                 s0 == NoteEvent(s, slot, st.macroIndex)
                 s1 == IF e.isPressed # 0 THEN keyPressMacro(s0, e.keyCode)
                       ELSE keyReleaseMacro(s0, e.keyCode)
                 s2 == [s1 EXCEPT !.macroPlayStatus[slot].macroIndex = (@ + 1) % W8]
                 s3 == IF s2.robotMacroMode THEN s2
                       ELSE NoteEvent(s2, slot, s2.macroPlayStatus[slot].macroIndex)
             IN  playEventsReadsAhead(s3, slot, NextDelay(s3, slot))
        ELSE s

\* the while loop of playMacro; currentTime is s.now, which no call in it moves
RECURSIVE playEvents(_, _, _)
playEvents(s, slot, nextDelay) ==
    LET st == s.macroPlayStatus[slot]
    IN  IF st.macroIndex < s.macros[slot].length
           /\ Geq32(Sub32(s.now, st.playStartTime), nextDelay)
        THEN LET e == EventAt(s, slot, st.macroIndex)
                 s0 == NoteEvent(s, slot, st.macroIndex)
                 s1 == IF e.isPressed # 0 THEN keyPressMacro(s0, e.keyCode)
                       ELSE keyReleaseMacro(s0, e.keyCode)
                 s2 == [s1 EXCEPT !.macroPlayStatus[slot].macroIndex = (@ + 1) % W8]
                 more == s2.macroPlayStatus[slot].macroIndex < s2.macros[slot].length
                 s3 == IF more /\ ~s2.robotMacroMode
                       THEN NoteEvent(s2, slot, s2.macroPlayStatus[slot].macroIndex)
                       ELSE s2
             IN  playEvents(s3, slot, IF more THEN NextDelay(s3, slot) ELSE nextDelay)
        ELSE s

\* a loop body that ends a slot at its last event, looping or not
playSlotNoLoop(s, slot) ==
    IF ~s.macroPlayStatus[slot].playing THEN s
    ELSE LET s1 == playEvents(NoteEvent(s, slot, s.macroPlayStatus[slot].macroIndex),
                              slot, NextDelay(s, slot))
         IN  IF s1.macroPlayStatus[slot].macroIndex >= s1.macros[slot].length
             THEN [s1 EXCEPT !.macroPlayStatus[slot].playing = FALSE,
                             !.macroPlayStatus[slot].macroIndex = 0,
                             !.macroPlayStatus[slot].playStartTime = Zero32]
             ELSE s1

\* the body of playMacro's for loop for one slot
playSlot(s, slot) ==
    IF ~s.macroPlayStatus[slot].playing THEN s
    ELSE LET s1 == playEvents(NoteEvent(s, slot, s.macroPlayStatus[slot].macroIndex),
                              slot, NextDelay(s, slot))
         IN  IF s1.macroPlayStatus[slot].macroIndex >= s1.macros[slot].length
             THEN IF s1.macroPlayStatus[slot].loop
                  THEN [s1 EXCEPT !.macroPlayStatus[slot].macroIndex = 0,
                                  !.macroPlayStatus[slot].playStartTime = s1.now]
                  ELSE [s1 EXCEPT !.macroPlayStatus[slot].playing = FALSE,
                                  !.macroPlayStatus[slot].macroIndex = 0,
                                  !.macroPlayStatus[slot].playStartTime = Zero32]
             ELSE s1

RECURSIVE playSlots(_, _)
playSlots(s, slot) ==
    IF slot >= MACRO_SLOTS THEN s ELSE playSlots(playSlot(s, slot), slot + 1)

playMacro(s) ==
    IF s.recording THEN s
    ELSE IF Geq32(Sub32(s.now, s.lastMacroTime), U32(MACRO_DELAY))
    THEN [playSlots(s, 0) EXCEPT !.lastMacroTime = s.now]
    ELSE s

----------------------------------------------------------------------------
(* handleKeyboard: one poll of the wire decoder.  in holds the levels of   *)
(* PINB this poll reads (1 high, 0 low) and the value micros() returns.    *)

\* a decoder that shifts by the bit index before its decrement
AccumulatePreDecrement(s, code, sp, idx) ==
    IF sp # 0 THEN code
    ELSE IF idx + 1 <= 7 THEN BitOr(code, 2^(idx + 1))
    ELSE s.oob

\* currentKeyCode |= (SP is low) << bitIndex
Accumulate(s, code, sp, idx) ==
    IF sp # 0 THEN code
    ELSE IF idx <= 7 THEN BitOr(code, 2^idx)
    ELSE s.oob

\* a reset test that is skipped while a bit is being read
ResetDetectedOutsideRead(s, in) ==
    in.res = 0 /\ s.keyboardState \notin {"WAIT_RES", "READ"}

\* the test of the first branch: KBRST low outside WAIT_RES
ResetDetected(s, in) == in.res = 0 /\ s.keyboardState # "WAIT_RES"

handleKeyboard(s, in) ==
    IF ResetDetected(s, in)
    THEN [keystroke([s EXCEPT !.interruptsEnabled = TRUE], 76, 5)
            EXCEPT !.functionMode = FALSE, !.keyboardState = "WAIT_RES"]
    ELSE IF s.keyboardState = "WAIT_RES"
    THEN IF in.res # 0 THEN [s EXCEPT !.keyboardState = "SYNCH_HI"] ELSE s
    ELSE IF s.keyboardState = "SYNCH_HI"
    THEN IF in.clk = 0 THEN [s EXCEPT !.keyboardState = "SYNCH_LO"] ELSE s
    ELSE IF s.keyboardState = "SYNCH_LO"
    THEN IF in.clk # 0 THEN [s EXCEPT !.keyboardState = "HANDSHAKE"] ELSE s
    ELSE IF s.keyboardState = "HANDSHAKE"
    THEN IF s.handshakeTimer = Zero32
         THEN [s EXCEPT !.ddrbSP = TRUE, !.handshakeTimer = in.us]
         ELSE IF ~Geq32(U32(MIN_HANDSHAKE_WAIT_TIME), Sub32(in.us, s.handshakeTimer))
         THEN [s EXCEPT !.handshakeTimer = Zero32, !.ddrbSP = FALSE,
                        !.keyboardState = "WAIT_LO", !.currentKeyCode = 0,
                        !.bitIndex = 7]
         ELSE s
    ELSE IF s.keyboardState = "READ"
    THEN IF in.clk # 0
         THEN IF s.bitIndex # 0
              THEN [s EXCEPT !.bitIndex = @ - 1,
                             !.currentKeyCode = Accumulate(s, @, in.sp, s.bitIndex - 1),
                             !.keyboardState = "WAIT_LO"]
              ELSE processKeyCode([s EXCEPT !.bitIndex = W8 - 1,
                                            !.interruptsEnabled = TRUE,
                                            !.keyboardState = "HANDSHAKE"],
                                  s.currentKeyCode, in.sp # 0)
         ELSE s
    ELSE IF s.keyboardState = "WAIT_LO"
    THEN IF in.clk = 0
         THEN [s EXCEPT !.interruptsEnabled = FALSE, !.keyboardState = "READ"]
         ELSE s
    ELSE s

----------------------------------------------------------------------------
(* Power on and setup().                                                   *)

NoHost == [id \in {HID_ID_KEYBOARD, HID_ID_MULTIMEDIA, HID_ID_MACROVKEYS} |-> NoReport]

\* the globals and statics as the C runtime initialises them, on store e
PowerOn(e) ==
    [keyboardState |-> "SYNCH_HI", handshakeTimer |-> Zero32, currentKeyCode |-> 0,
     bitIndex |-> 0, interruptsEnabled |-> TRUE, ddrbSP |-> FALSE,
     keyReport |-> EmptyReport, prevkeyReport |-> EmptyReport,
     macroKeyReport |-> EmptyReport, macroPrevkeyReport |-> EmptyReport,
     multimediaKeys |-> 0, functionMode |-> FALSE, ignoreNextRelease |-> 0,
     recording |-> FALSE, recordingSlot |-> FALSE, macro_looping |-> FALSE,
     recordingMacroSlot |-> 0, recordingMacroIndex |-> 0,
     macros |-> [i \in Slots |-> ZeroMacro],
     macroPlayStatus |-> [i \in Slots |-> ZeroPlayStatus],
     robotMacroMode |-> MACRO_ROBOT_MODE_DEFAULT, lastMacroTime |-> Zero32,
     eeprom |-> e, now |-> Zero32,
     hidLog |-> <<>>, host |-> NoHost, tableIdx |-> {}, dispatched |-> <<>>,
     fnConsumed |-> {}, played |-> <<>>, session |-> <<>>, eventIdx |-> {},
     oob |-> 0]

setup(s) ==
    [loadMacrosFromEEPROM(s) EXCEPT !.keyReport = EmptyReport,
                                    !.prevkeyReport = FilledReport,
                                    !.macroKeyReport = EmptyReport,
                                    !.macroPrevkeyReport = FilledReport,
                                    !.ddrbSP = FALSE]

----------------------------------------------------------------------------
(* The state as a record, and back.                                        *)

\* the program state at the start of a step: the observations of the step
\* start empty, oob is the byte an out-of-bounds read would return
StartStep(oob) ==
    [keyboardState |-> keyboardState, handshakeTimer |-> handshakeTimer,
     currentKeyCode |-> currentKeyCode, bitIndex |-> bitIndex,
     interruptsEnabled |-> interruptsEnabled, ddrbSP |-> ddrbSP,
     keyReport |-> keyReport, prevkeyReport |-> prevkeyReport,
     macroKeyReport |-> macroKeyReport, macroPrevkeyReport |-> macroPrevkeyReport,
     multimediaKeys |-> multimediaKeys, functionMode |-> functionMode,
     ignoreNextRelease |-> ignoreNextRelease,
     recording |-> recording, recordingSlot |-> recordingSlot,
     macro_looping |-> macro_looping, recordingMacroSlot |-> recordingMacroSlot,
     recordingMacroIndex |-> recordingMacroIndex,
     macros |-> macros, macroPlayStatus |-> macroPlayStatus,
     robotMacroMode |-> robotMacroMode, lastMacroTime |-> lastMacroTime,
     eeprom |-> eeprom, now |-> now,
     hidLog |-> <<>>, host |-> host, tableIdx |-> {}, dispatched |-> <<>>,
     fnConsumed |-> fnConsumed, played |-> <<>>, session |-> session,
     eventIdx |-> {}, oob |-> oob]

\* the program state as it stands (for what-if evaluation of an operation)
State == [StartStep(0) EXCEPT !.hidLog = hidLog, !.tableIdx = tableIdx,
                              !.dispatched = dispatched, !.played = played,
                              !.eventIdx = eventIdx]

Commit(s) ==
    /\ keyboardState' = s.keyboardState
    /\ handshakeTimer' = s.handshakeTimer
    /\ currentKeyCode' = s.currentKeyCode
    /\ bitIndex' = s.bitIndex
    /\ interruptsEnabled' = s.interruptsEnabled
    /\ ddrbSP' = s.ddrbSP
    /\ keyReport' = s.keyReport
    /\ prevkeyReport' = s.prevkeyReport
    /\ macroKeyReport' = s.macroKeyReport
    /\ macroPrevkeyReport' = s.macroPrevkeyReport
    /\ multimediaKeys' = s.multimediaKeys
    /\ functionMode' = s.functionMode
    /\ ignoreNextRelease' = s.ignoreNextRelease
    /\ recording' = s.recording
    /\ recordingSlot' = s.recordingSlot
    /\ macro_looping' = s.macro_looping
    /\ recordingMacroSlot' = s.recordingMacroSlot
    /\ recordingMacroIndex' = s.recordingMacroIndex
    /\ macros' = s.macros
    /\ macroPlayStatus' = s.macroPlayStatus
    /\ robotMacroMode' = s.robotMacroMode
    /\ lastMacroTime' = s.lastMacroTime
    /\ eeprom' = s.eeprom
    /\ now' = s.now
    /\ hidLog' = s.hidLog
    /\ host' = s.host
    /\ tableIdx' = s.tableIdx
    /\ dispatched' = s.dispatched
    /\ fnConsumed' = s.fnConsumed
    /\ played' = s.played
    /\ session' = s.session
    /\ eventIdx' = s.eventIdx

\* the same, for the initial state
StartsAs(s) ==
    /\ keyboardState = s.keyboardState
    /\ handshakeTimer = s.handshakeTimer
    /\ currentKeyCode = s.currentKeyCode
    /\ bitIndex = s.bitIndex
    /\ interruptsEnabled = s.interruptsEnabled
    /\ ddrbSP = s.ddrbSP
    /\ keyReport = s.keyReport
    /\ prevkeyReport = s.prevkeyReport
    /\ macroKeyReport = s.macroKeyReport
    /\ macroPrevkeyReport = s.macroPrevkeyReport
    /\ multimediaKeys = s.multimediaKeys
    /\ functionMode = s.functionMode
    /\ ignoreNextRelease = s.ignoreNextRelease
    /\ recording = s.recording
    /\ recordingSlot = s.recordingSlot
    /\ macro_looping = s.macro_looping
    /\ recordingMacroSlot = s.recordingMacroSlot
    /\ recordingMacroIndex = s.recordingMacroIndex
    /\ macros = s.macros
    /\ macroPlayStatus = s.macroPlayStatus
    /\ robotMacroMode = s.robotMacroMode
    /\ lastMacroTime = s.lastMacroTime
    /\ eeprom = s.eeprom
    /\ now = s.now
    /\ hidLog = s.hidLog
    /\ host = s.host
    /\ tableIdx = s.tableIdx
    /\ dispatched = s.dispatched
    /\ fnConsumed = s.fnConsumed
    /\ played = s.played
    /\ session = s.session
    /\ eventIdx = s.eventIdx

----------------------------------------------------------------------------
(* Environment: the Amiga keyboard on KCLK/KDAT, the reset line, the clock.*)

Byte(c, p) == [code |-> c, pressed |-> p]
NoByte == [code |-> -1, pressed |-> FALSE]
Press(c) == Byte(c, TRUE)
Release(c) == Byte(c, FALSE)

\* The KDAT levels of one byte in the order the keyboard clocks them out:
\* bits 6-5-4-3-2-1-0 of the key code, then bit 7, the up/down flag (1 = up).
\* KDAT is active low: a 1 is a low level (0), a 0 a high level (1).
DataBit(c, i) == (c \div (2^i)) % 2
WireLevels(b) ==
    IF b = NoByte THEN <<>>
    ELSE [n \in 1..8 |-> IF n <= 7 THEN 1 - DataBit(b.code, 7 - n)
                         ELSE IF b.pressed THEN 1 ELSE 0]

\* sub-millisecond phases of micros(): at the poll that starts the handshake
\* pulse, and at the polls that wait for its end
StartPhases == {0, 50}
WaitPhases == {100, 200}
\* bytes an out-of-bounds read may return
OobBytes == {0, 255}

\* The keyboard is between two bytes (or silent).  A byte takes about half a
\* millisecond on the wire, so the clock advances by MACRO_DELAY only here.
BetweenBytes ==
    \/ keyboardState \in {"SYNCH_HI", "WAIT_RES"}
    \/ keyboardState = "WAIT_LO" /\ Len(kbBits) \in {0, 8}

\* The reset line and the power are left alone while more than kbQuiet bytes
\* of the keyboard's script remain to be sent.
Undisturbed == Len(kbScript) <= kbQuiet

\* the inputs one poll of handleKeyboard may see in the current state
PollInputs ==
    [dt  : IF ticksLeft > 0 /\ BetweenBytes THEN {0, MACRO_DELAY} ELSE {0},
     res : IF keyboardState = "WAIT_RES" \/ (resetsLeft > 0 /\ Undisturbed)
           THEN {0, 1} ELSE {1},
     clk : IF keyboardState \in {"SYNCH_HI", "SYNCH_LO", "READ"}
              \/ (keyboardState = "WAIT_LO" /\ kbBits # <<>>)
           THEN {0, 1} ELSE {1},
     ph  : IF keyboardState # "HANDSHAKE" THEN {0}
           ELSE IF handshakeTimer = Zero32 THEN StartPhases ELSE WaitPhases,
     oob : IF keyboardState = "READ" THEN OobBytes ELSE {0}]

\* the bytes the keyboard may start to send once it sees the handshake
NextBytes ==
    IF kbScript # <<>> THEN {Head(kbScript)}
    ELSE IF bytesLeft > 0 THEN kbKeys
    ELSE {NoByte}

HandleKeyboard ==
    /\ pc = "handleKeyboard"
    /\ \E i \in PollInputs :
         LET t == Add32(now, i.dt)
             sp == IF kbBits # <<>> THEN Head(kbBits) ELSE 1
             in == [clk |-> i.clk, sp |-> sp, res |-> i.res,
                    us |-> Add32(Mul1000(t), i.ph)]
             s1 == handleKeyboard([StartStep(i.oob) EXCEPT !.now = t], in)
             resetSeen == i.res = 0 /\ keyboardState # "WAIT_RES"
             handshakeDone == keyboardState = "HANDSHAKE" /\ s1.keyboardState = "WAIT_LO"
             sampled == ~resetSeen /\ keyboardState = "READ" /\ i.clk = 1
         IN  /\ Commit(s1)
             /\ pinb' = [clk |-> i.clk, sp |-> sp, res |-> i.res]
             /\ ticksLeft' = IF i.dt > 0 THEN ticksLeft - 1 ELSE ticksLeft
             /\ resetsLeft' = IF resetSeen THEN resetsLeft - 1 ELSE resetsLeft
             /\ IF handshakeDone
                THEN \E b \in NextBytes :
                       /\ kbByte' = b
                       /\ kbBits' = WireLevels(b)
                       /\ kbScript' = IF kbScript # <<>> THEN Tail(kbScript) ELSE kbScript
                       /\ bytesLeft' = IF kbScript = <<>> /\ b # NoByte
                                       THEN bytesLeft - 1 ELSE bytesLeft
                ELSE /\ kbBits' = IF resetSeen THEN <<>>
                                  ELSE IF sampled THEN Tail(kbBits) ELSE kbBits
                     /\ UNCHANGED <<kbByte, kbScript, bytesLeft>>
    /\ pc' = "playMacro"
    /\ UNCHANGED <<kbKeys, kbQuiet, bootsLeft, queues>>

PlayMacro ==
    /\ pc = "playMacro"
    /\ \E oob \in IF isMacroPlaying(State) THEN OobBytes ELSE {0} :
         Commit(playMacro(StartStep(oob)))
    /\ pc' = "handleKeyboard"
    /\ UNCHANGED <<envVars, queues>>

\* Power is cut and restored: RAM is lost, the store is kept, setup() runs
\* and the USB device enumerates again.  Nothing of the RAM survives, so the
\* cut is taken between two passes of loop() and between two bytes.
PowerCycle ==
    /\ bootsLeft > 0
    /\ Undisturbed
    /\ pc = "handleKeyboard"
    /\ BetweenBytes
    /\ Commit(setup(PowerOn(eeprom)))
    /\ pc' = "handleKeyboard"
    /\ bootsLeft' = bootsLeft - 1
    /\ pinb' = [clk |-> 1, sp |-> 1, res |-> 1]
    /\ kbBits' = <<>>
    /\ UNCHANGED <<kbByte, kbScript, kbKeys, kbQuiet, bytesLeft, resetsLeft, ticksLeft,
                   queues>>

\* the state after power-on with store e, with the environment's script and
\* budgets
InitOn(e, script, quiet, keys, nBytes, nResets, nTicks, nBoots) ==
    /\ StartsAs(setup(PowerOn(e)))
    /\ pc = "handleKeyboard"
    /\ pinb = [clk |-> 1, sp |-> 1, res |-> 1]
    /\ kbBits = <<>>
    /\ kbByte = NoByte
    /\ kbScript = script
    /\ kbKeys = keys
    /\ kbQuiet = quiet
    /\ bytesLeft = nBytes
    /\ resetsLeft = nResets
    /\ ticksLeft = nTicks
    /\ bootsLeft = nBoots
    /\ keyQueue = <<>>
    /\ delayedKeyQueue = <<>>

\* the state after construction (erased store), with the environment's script
\* and budgets
InitWith(script, quiet, keys, nBytes, nResets, nTicks, nBoots) ==
    InitOn(<<>>, script, quiet, keys, nBytes, nResets, nTicks, nBoots)

----------------------------------------------------------------------------
(* Specifications.                                                         *)

\* keys the keyboard chooses from when it follows no script
KbKeysSmall ==
    {Press(AMIGA_KEY_A), Release(AMIGA_KEY_A),
     Press(AMIGA_KEY_SHIFT_LEFT), Release(AMIGA_KEY_SHIFT_LEFT),
     Press(AMIGA_KEY_HELP), Release(AMIGA_KEY_HELP),
     Press(AMIGA_KEY_COUNT)}

Init == InitWith(<<>>, 0, KbKeysSmall, MaxBytes, MaxResets, MaxTicks, MaxBoots)

Next == HandleKeyboard \/ PlayMacro \/ PowerCycle

\* loop() alone, without power cycles
NextLoop == HandleKeyboard \/ PlayMacro

Spec == Init /\ [][Next]_vars

\* One byte on the wire, any key code with either up/down flag, and a reset
\* that may cut in anywhere.
AllBytes == {Byte(c, p) : c \in 0..127, p \in BOOLEAN}
SpecWire ==
    /\ (\E b \in AllBytes : InitWith(<<b>>, 1, {}, 0, MaxResets, 0, 0))
    /\ [][NextLoop]_vars

\* The keyboard records a macro into slot 0 (Help+F3, then F6 picks the
\* slot), with a byte of an undefined key code in between, stops the
\* recording (Help+F4) in case it has not stopped by itself, and plays the
\* slot (Help+F6).  After that it sends bytes of its choice.
RecordAndPlay ==
    <<Press(AMIGA_KEY_HELP), Press(AMIGA_KEY_F3), Release(AMIGA_KEY_HELP),
      Press(AMIGA_KEY_F6), Press(AMIGA_KEY_COUNT),
      Press(AMIGA_KEY_SHIFT_LEFT), Press(AMIGA_KEY_A),
      Press(AMIGA_KEY_HELP), Press(AMIGA_KEY_F4), Release(AMIGA_KEY_HELP),
      Press(AMIGA_KEY_HELP), Press(AMIGA_KEY_F6), Release(AMIGA_KEY_HELP)>>
InitMacro ==
    InitWith(RecordAndPlay, 3, KbKeysSmall, MaxFreeBytes, MaxResets, MaxMacroTicks, MaxBoots)
SpecMacro == InitMacro /\ [][Next]_vars
\* the same scenario without power cycles, the clock moving on once less
SpecMacroLoop ==
    /\ InitWith(RecordAndPlay, 3, KbKeysSmall, MaxFreeBytes, MaxResets,
                MaxMacroTicks - 1, MaxBoots)
    /\ [][NextLoop]_vars

\* Six keys go down one after the other and stay down, which fills the six
\* key slots of the live report; then the keyboard sends bytes of its choice
\* and the reset line may be asserted.
SixKeysDown ==
    <<Press(AMIGA_KEY_A), Press(AMIGA_KEY_S), Press(AMIGA_KEY_D),
      Press(AMIGA_KEY_F), Press(AMIGA_KEY_G), Press(AMIGA_KEY_H)>>
SpecFull ==
    /\ InitWith(SixKeysDown, 0, KbKeysSmall, MaxBytes - 1, MaxResets, 0, 0)
    /\ [][NextLoop]_vars

\* The keyboard starts a recording (Help+F3) and, before it picks a slot,
\* presses Caps Lock; F6 picks slot 0; with Help held again it presses A and
\* then left Shift.  After that it sends bytes of its choice.
KbKeysRecord == KbKeysSmall \cup {Press(AMIGA_KEY_CAPS_LOCK), Press(AMIGA_KEY_F4)}
RecordUnderHelp ==
    <<Press(AMIGA_KEY_HELP), Press(AMIGA_KEY_F3), Release(AMIGA_KEY_HELP),
      Press(AMIGA_KEY_CAPS_LOCK), Press(AMIGA_KEY_F6),
      Press(AMIGA_KEY_HELP), Press(AMIGA_KEY_A), Press(AMIGA_KEY_SHIFT_LEFT)>>
SpecRecord ==
    /\ InitWith(RecordUnderHelp, 0, KbKeysRecord, MaxBytes - 1, MaxResets, 0, 0)
    /\ [][NextLoop]_vars

\* the program state after processKeyCode has taken the events of seq (the
\* test on the event count evaluates the state event by event)
RECURSIVE Dispatch(_, _)
Dispatch(s, seq) ==
    IF seq # <<>> /\ Len(s.dispatched) >= 0
    THEN Dispatch(processKeyCode(s, Head(seq).code, Head(seq).pressed), Tail(seq))
    ELSE s

\* one recording session: Help+F3, the slot key, event e1, event e2 ms
\* milliseconds later, Help+F4 (which does nothing if the slot was full)
RecordSlot(s, slotKey, e1, ms, e2) ==
    LET s1 == Dispatch(s, <<Press(AMIGA_KEY_HELP), Press(AMIGA_KEY_F3),
                            Release(AMIGA_KEY_HELP), Press(slotKey), e1>>)
    IN  Dispatch(delay(s1, ms),
                 <<e2, Press(AMIGA_KEY_HELP), Press(AMIGA_KEY_F4),
                   Release(AMIGA_KEY_HELP)>>)

\* The store a device holds after three recording sessions: slot 0 presses
\* left Shift and, 40 ms later, A; slot 1 presses S and releases it 40 ms
\* later; slot 2 presses and releases D.
RecordedStore ==
    LET s1 == RecordSlot(setup(PowerOn(<<>>)), AMIGA_KEY_F6,
                         Press(AMIGA_KEY_SHIFT_LEFT), 2 * MACRO_DELAY, Press(AMIGA_KEY_A))
        s2 == RecordSlot(s1, AMIGA_KEY_F7,
                         Press(AMIGA_KEY_S), 2 * MACRO_DELAY, Release(AMIGA_KEY_S))
        s3 == RecordSlot(s2, AMIGA_KEY_F8,
                         Press(AMIGA_KEY_D), 0, Release(AMIGA_KEY_D))
    IN  s3.eeprom

\* The device is powered on with that store.  With Help held the keyboard
\* starts slots 0 and 1, with or without looping (Help+F5) switched on
\* first; then, Help still held, it sends bytes of its choice: play keys,
\* start recording, stop all, reset of all macros, loop toggle, Help up.
KbKeysPlay ==
    {Press(AMIGA_KEY_F6), Press(AMIGA_KEY_F8), Press(AMIGA_KEY_F3),
     Press(AMIGA_KEY_F5), Press(AMIGA_KEY_BACKSPACE), Press(AMIGA_KEY_DELETE),
     Release(AMIGA_KEY_HELP)}
PlayScripts ==
    {<<Press(AMIGA_KEY_HELP), Press(AMIGA_KEY_F6), Press(AMIGA_KEY_F7)>>,
     <<Press(AMIGA_KEY_HELP), Press(AMIGA_KEY_F5), Press(AMIGA_KEY_F6),
       Press(AMIGA_KEY_F7)>>}
InitPlay ==
    \E script \in PlayScripts :
        InitOn(RecordedStore, script, 0, KbKeysPlay, MaxBytes - 1, MaxResets,
               MaxMacroTicks, 0)
SpecPlay == InitPlay /\ [][NextLoop]_vars

\* The device holds the recorded store.  The keyboard starts a recording
\* (Help+F3) and then, Help still down, sends bytes of its choice: Help up,
\* slot keys, a letter, Delete.
KbKeysSelect ==
    {Release(AMIGA_KEY_HELP), Press(AMIGA_KEY_F6), Press(AMIGA_KEY_F8),
     Press(AMIGA_KEY_F10), Press(AMIGA_KEY_A), Press(AMIGA_KEY_DELETE)}
SpecSelect ==
    /\ InitOn(RecordedStore, <<Press(AMIGA_KEY_HELP), Press(AMIGA_KEY_F3)>>, 0,
              KbKeysSelect, MaxBytes - 1, MaxResets, 0, 0)
    /\ [][NextLoop]_vars

\* The keyboard starts a recording into slot 0 and presses A; then it sends
\* bytes of its choice: A up (which fills the slot), Help, and with Help down
\* F4 (stop) and Delete (reset of all macros).  The power may be cut at any
\* moment between two bytes, also during the recording.
KbKeysPersist ==
    {Release(AMIGA_KEY_A), Press(AMIGA_KEY_HELP), Press(AMIGA_KEY_F4),
     Press(AMIGA_KEY_DELETE)}
RecordOneKey ==
    <<Press(AMIGA_KEY_HELP), Press(AMIGA_KEY_F3), Release(AMIGA_KEY_HELP),
      Press(AMIGA_KEY_F6), Press(AMIGA_KEY_A)>>
InitPersist ==
    InitWith(RecordOneKey, Len(RecordOneKey), KbKeysPersist, MaxBytes, 0, 1, MaxBoots)
SpecPersist == InitPersist /\ [][Next]_vars

----------------------------------------------------------------------------
(* Wire decoder.                                                           *)

\* a poll of handleKeyboard
Poll == pc = "handleKeyboard" /\ pc' = "playMacro"

\* the poll that samples the eighth bit of the byte on the wire
SamplesLastBit == Poll /\ pinb'.res = 1 /\ Len(kbBits) = 1 /\ kbBits' = <<>>

\* C1: for a byte whose bits arrive in the order 6-5-4-3-2-1-0-7 after a
\* completed handshake, processKeyCode is called exactly once, by the poll
\* that samples the eighth bit, with the key code and the up/down flag the
\* keyboard sent, and the decoder is then back in HANDSHAKE.
C1_DecodesWireOrder ==
    [][/\ SamplesLastBit => /\ dispatched' = <<kbByte>>
                            /\ keyboardState' = "HANDSHAKE"
       /\ dispatched' # <<>> => SamplesLastBit]_vars

\* a key-up byte with a mixed bit pattern has been decoded and dispatched
C1_Witness ==
    /\ kbByte = Release(AMIGA_KEY_NUMPAD_NUMLOCK_LPAREN)
    /\ dispatched = <<Release(AMIGA_KEY_NUMPAD_NUMLOCK_LPAREN)>>
    /\ keyboardState = "HANDSHAKE"
    /\ resetsLeft < MaxResets

----------------------------------------------------------------------------
(* Bounds of keyTable.                                                     *)

\* C2: whatever bytes are decoded (an undefined key code among them), through
\* recording, saving, loading a saved store and playback, every index used on
\* keyTable, by keyPress, keyRelease, keyPressMacro or keyReleaseMacro, is
\* below AMIGA_KEY_COUNT.
C2_TableIndexInRange == \A k \in tableIdx : k < AMIGA_KEY_COUNT

\* after a power cycle, playback of the macro loaded from the store has
\* looked up both recorded keys and pressed them in the macro report
C2_Witness ==
    /\ bootsLeft < MaxBoots
    /\ pc = "handleKeyboard"
    /\ tableIdx = {AMIGA_KEY_SHIFT_LEFT, AMIGA_KEY_A}
    /\ macroKeyReport.keys[1] = keyTable[AMIGA_KEY_A + 1]
    /\ macroKeyReport.modifiers = keyTable[AMIGA_KEY_SHIFT_LEFT + 1]

----------------------------------------------------------------------------
(* Reset line.                                                             *)

\* C3: a poll that sees the reset line asserted leaves the decoder in
\* WAIT_RES whatever state it was in; the decoder stays there while the line
\* is asserted, and the first poll that sees it deasserted moves it to
\* SYNCH_HI.
C3_ResetOverridesDecoder ==
    [][Poll => /\ pinb'.res = 0 => keyboardState' = "WAIT_RES"
               /\ (keyboardState = "WAIT_RES" /\ pinb'.res = 1)
                     => keyboardState' = "SYNCH_HI"]_vars

\* reset has cut a byte short: the decoder waits in WAIT_RES with bits of
\* the byte still unread
C3_Witness ==
    /\ keyboardState = "WAIT_RES"
    /\ pinb.res = 0
    /\ bitIndex \in 1..6
    /\ currentKeyCode # 0

\* the poll that detects a reset: KBRST read low outside WAIT_RES
ResetPoll == Poll /\ pinb'.res = 0 /\ keyboardState # "WAIT_RES"

\* the reports with ID HID_ID_KEYBOARD that the last action transmitted
KeyboardReportsSent == SelectSeq(hidLog, LAMBDA r : r.id = HID_ID_KEYBOARD)

\* the last action transmitted the reset chord, once: a keyboard report with
\* Delete (HID 0x4C) under the modifiers left Ctrl + left Alt (0x05), then a
\* keyboard report without Delete
ChordSentOnce ==
    /\ Len(KeyboardReportsSent) = 2
    /\ KeyboardReportsSent[1].report.modifiers = 5
    /\ \E i \in 1..6 : KeyboardReportsSent[1].report.keys[i] = 76
    /\ \A i \in 1..6 : KeyboardReportsSent[2].report.keys[i] # 76

\* C4: every poll that detects a reset makes the host receive the reset chord
\* exactly once, whatever the live report held.
C4_ResetSendsChord == [][ResetPoll => ChordSentOnce']_vars

\* C5: right after the poll that detects a reset, functionMode is false and
\* no macro slot is playing.
C5_ResetStopsPlayback ==
    [][ResetPoll => /\ ~functionMode'
                    /\ \A i \in Slots : ~macroPlayStatus'[i].playing]_vars

\* a report that holds no key and no modifier (or was never transmitted)
HoldsNothing(r) ==
    r = NoReport \/ (r.modifiers = 0 /\ \A i \in 1..6 : r.keys[i] = 0)

\* C6: after the poll that detects a reset, the live report and the macro
\* report hold no key and no modifier, and the last report the host got
\* under either report ID is empty.
C6_ResetClearsReports ==
    [][ResetPoll => /\ HoldsNothing(keyReport') /\ HoldsNothing(macroKeyReport')
                    /\ HoldsNothing(host'[HID_ID_KEYBOARD])
                    /\ HoldsNothing(host'[HID_ID_MACROVKEYS])]_vars

----------------------------------------------------------------------------
(* Live report.                                                            *)

ValidKeyCodes == 0..(AMIGA_KEY_COUNT - 1)

\* the live report already shows key code k as down: its modifier bit is
\* set, or its (non-zero) HID code is in a key slot
AlreadyDown(k) ==
    IF isAmigaModifierKey(k)
    THEN Bits(keyTable[k + 1]) \cap Bits(keyReport.modifiers) # {}
    ELSE keyTable[k + 1] # 0 /\ \E i \in 1..6 : keyReport.keys[i] = keyTable[k + 1]

\* the live report after keyPress(k) followed at once by keyRelease(k)
AfterPressRelease(k) == keyRelease(keyPress(State, k), k).keyReport

\* C7 as stated: for every reachable live report and every valid key code,
\* keyPress(k) then keyRelease(k) leaves the live report as it was.
C7_PressReleaseRestores ==
    \A k \in ValidKeyCodes : AfterPressRelease(k) = keyReport

\* C7, amended: for every reachable live report and every valid key code
\* that the report does not already show as down, keyPress(k) then
\* keyRelease(k) leaves the live report as it was.
C7_PressReleaseRestoresNewKey ==
    \A k \in ValidKeyCodes : ~AlreadyDown(k) => AfterPressRelease(k) = keyReport

\* with six keys down, left Shift went down and up again: the release has
\* just been dispatched and transmitted, and the live report is back to the
\* six keys without modifier
C7_Witness ==
    /\ dispatched = <<Release(AMIGA_KEY_SHIFT_LEFT)>>
    /\ hidLog # <<>>
    /\ keyReport.modifiers = 0
    /\ \A i \in 1..6 : keyReport.keys[i] # 0
    /\ ~AlreadyDown(AMIGA_KEY_SHIFT_LEFT)
    /\ keyPress(State, AMIGA_KEY_SHIFT_LEFT).keyReport # keyReport

\* C8: no non-zero HID code sits in more than one key slot of the live
\* report.
C8_NoDuplicateSlots ==
    \A i, j \in 1..6 :
        (i # j /\ keyReport.keys[i] # 0) => keyReport.keys[i] # keyReport.keys[j]

----------------------------------------------------------------------------
(* Transmission of reports.                                                *)

\* the previous-report snapshot that goes with the last report the host got
SnapshotOf(last) == IF last = NoReport THEN FilledReport ELSE last

\* the reports with the given ID in a log, after the report the host held
SentUnder(id, last, log) ==
    <<last>> \o [i \in 1..Len(SelectSeq(log, LAMBDA r : r.id = id)) |->
                  SelectSeq(log, LAMBDA r : r.id = id)[i].report]

NoRepeat(seq) == \A i \in 1..(Len(seq) - 1) : seq[i] # seq[i + 1]

\* C9: under the keyboard ID and under the macro ID, every report the
\* program transmits differs from the one transmitted before it under that
\* ID; the previous-report snapshot equals the last report transmitted; and a
\* second sendReport or sendReportMacro with no change transmits nothing.
C9_TransmitOnChangeOnly ==
    [][/\ NoRepeat(SentUnder(HID_ID_KEYBOARD, host[HID_ID_KEYBOARD], hidLog'))
       /\ NoRepeat(SentUnder(HID_ID_MACROVKEYS, host[HID_ID_MACROVKEYS], hidLog'))
       /\ prevkeyReport' = SnapshotOf(host'[HID_ID_KEYBOARD])
       /\ macroPrevkeyReport' = SnapshotOf(host'[HID_ID_MACROVKEYS])
       /\ sendReport(sendReport(State)).hidLog' = sendReport(State).hidLog'
       /\ sendReportMacro(sendReportMacro(State)).hidLog'
             = sendReportMacro(State).hidLog']_vars

\* left Shift, already down, goes down again after a macro was played: the
\* press changes nothing in the live report and nothing is transmitted
C9_Witness ==
    /\ dispatched = <<Press(AMIGA_KEY_SHIFT_LEFT)>>
    /\ ~functionMode
    /\ hidLog = <<>>
    /\ keyReport.modifiers # 0
    /\ host[HID_ID_KEYBOARD] = keyReport
    /\ macroKeyReport.modifiers # 0
    /\ host[HID_ID_MACROVKEYS] = macroKeyReport

----------------------------------------------------------------------------
(* Independence of the live report and the macro report.                   *)

\* the HID code and modifier arguments the sketch passes to keystroke
KeystrokeCalls ==
    {<<76, 5>>, <<57, 0>>, <<83, 0>>, <<71, 0>>, <<68, 0>>, <<69, 0>>,
     <<70, 0>>, <<73, 0>>}

\* C10: keyPressMacro, keyReleaseMacro, playMacro, playMacroSlot,
\* stopAllMacros and resetMacros leave keyReport as it is; keyPress,
\* keyRelease and keystroke leave macroKeyReport as it is.
C10_ReportsIndependent ==
    LET s == State
    IN  /\ \A k \in ValidKeyCodes :
             /\ keyPressMacro(s, k).keyReport = keyReport
             /\ keyReleaseMacro(s, k).keyReport = keyReport
             /\ keyPress(s, k).macroKeyReport = macroKeyReport
             /\ keyRelease(s, k).macroKeyReport = macroKeyReport
        /\ \A slot \in Slots : playMacroSlot(s, slot).keyReport = keyReport
        /\ \A oob \in OobBytes :
             playMacro([s EXCEPT !.oob = oob]).keyReport = keyReport
        /\ stopAllMacros(s).keyReport = keyReport
        /\ resetMacros(s).keyReport = keyReport
        /\ \A c \in KeystrokeCalls :
             keystroke(s, c[1], c[2]).macroKeyReport = macroKeyReport

\* playback has pressed keys in the macro report while live keys are down,
\* and the two reports differ
C10_Witness ==
    /\ pc = "handleKeyboard"
    /\ \E r \in 1..Len(hidLog) : hidLog[r].id = HID_ID_MACROVKEYS
    /\ macroKeyReport.keys[1] # 0
    /\ keyReport.keys[1] # 0
    /\ keyReport # macroKeyReport

----------------------------------------------------------------------------
(* Function layer.                                                         *)

\* C11: the key-up of a key whose key-down the function layer took is not
\* passed to keyRelease: the poll that dispatches it does no lookup for the
\* key in keyTable, leaves the live report as it was and records nothing,
\* whatever was dispatched between that key-down and the key-up.
C11_FunctionKeyUpConsumed ==
    [][\A k \in fnConsumed :
          dispatched' = <<Release(k)>>
             => /\ k \notin tableIdx'
                /\ keyReport' = keyReport
                /\ macros' = macros
                /\ recordingMacroIndex' = recordingMacroIndex]_vars

\* a poll that dispatches a Help event
HelpEvent(pressed) == Poll /\ dispatched' = <<Byte(AMIGA_KEY_HELP, pressed)>>

\* C12: functionMode follows the Help key: a Help press sets it, a Help
\* release and a detected reset clear it, and no other step of the program
\* changes it.
C12_FunctionModeFollowsHelp ==
    [][/\ HelpEvent(TRUE) => functionMode'
       /\ HelpEvent(FALSE) => ~functionMode'
       /\ ResetPoll => ~functionMode'
       /\ functionMode' # functionMode
            => HelpEvent(TRUE) \/ HelpEvent(FALSE) \/ ResetPoll]_vars

----------------------------------------------------------------------------
(* Macro engine: recording and playback.                                   *)

NonePlaying(s) == \A i \in Slots : ~s.macroPlayStatus[i].playing

\* C13: while a recording is on, no macro slot is playing, and a play
\* command for any slot or a playback tick leaves it so.
C13_RecordingExcludesPlayback ==
    recording => /\ NonePlaying(State)
                 /\ \A slot \in Slots : NonePlaying(playMacroSlot(State, slot))
                 /\ NonePlaying(playMacro(State))

\* two slots were playing and had pressed keys on the host when Help+F3
\* started a recording; now, still under Help, the play key of slot 0 has
\* been dispatched
C13_Witness ==
    /\ recording
    /\ functionMode
    /\ dispatched = <<Press(AMIGA_KEY_F6)>>
    /\ host[HID_ID_MACROVKEYS] # NoReport
    /\ HoldsNothing(host[HID_ID_MACROVKEYS])

\* a poll that dispatches one key-down event
KeyDownPoll == Poll /\ Len(dispatched') = 1 /\ dispatched'[1].pressed

\* C14: between the start of a recording and the choice of its slot, no
\* key-down event changes the live report or makes the program transmit a
\* keyboard report.
C14_NoKeyDownBeforeSlot ==
    [][(KeyDownPoll /\ recording /\ ~recordingSlot)
          => (keyReport' = keyReport /\ KeyboardReportsSent' = <<>>)]_vars

\* a poll that dispatches one key event while a recording with a chosen slot
\* has room for it
RecordingPoll ==
    /\ Poll /\ Len(dispatched') = 1
    /\ recording /\ recordingSlot /\ recordingMacroIndex < MAX_MACRO_LENGTH

\* the step appended the dispatched event to the active slot, as one entry
\* with the time of the event (less the time of the slot's first event once
\* the recording has stopped and the delays are normalised)
AppendedOnce ==
    LET idx == recordingMacroIndex
        m == macros'[recordingMacroSlot]
        first == IF idx = 0 THEN now' ELSE macros[recordingMacroSlot].keyEvents[1].delay
    IN  /\ recordingMacroIndex' = idx + 1
        /\ m.length = idx + 1
        /\ m.keyEvents[idx + 1].keyCode = dispatched'[1].code
        /\ m.keyEvents[idx + 1].isPressed = (IF dispatched'[1].pressed THEN 1 ELSE 0)
        /\ m.keyEvents[idx + 1].delay = (IF recording' THEN now' ELSE Sub32(now', first))

\* C15: while a recording with a chosen slot has room, every key event that
\* makes the program transmit a keyboard report is appended to the slot as
\* exactly one entry.
C15_ForwardedIsRecorded ==
    [][(RecordingPoll /\ KeyboardReportsSent' # <<>>) => AppendedOnce]_vars

\* the step that appends the event which fills the active slot
FillsSlot ==
    recordingMacroIndex # MAX_MACRO_LENGTH /\ recordingMacroIndex' = MAX_MACRO_LENGTH

\* C16: the step that appends the event which fills the active slot stops
\* the recording and leaves the store holding the macros as they then are,
\* under a checksum that loadMacrosFromEEPROM accepts; the recording index
\* and the length of every slot never exceed MAX_MACRO_LENGTH.
C16_StopsAtCapacity ==
    [][/\ recordingMacroIndex' <= MAX_MACRO_LENGTH
       /\ \A i \in Slots : macros'[i].length <= MAX_MACRO_LENGTH
       /\ recording' => recordingMacroIndex' < MAX_MACRO_LENGTH
       /\ FillsSlot => /\ ~recording' /\ ~recordingSlot'
                       /\ LoadAccepts(eeprom')
                       /\ StoredMacros(eeprom') = macros']_vars

\* a key event has just filled slot 0: the recording is off and the store
\* has been written
C16_Witness ==
    /\ Len(dispatched) = 1
    /\ AMIGA_KEY_A \in tableIdx
    /\ recordingMacroIndex = MAX_MACRO_LENGTH
    /\ macros[0].length = MAX_MACRO_LENGTH
    /\ ~recording /\ ~recordingSlot
    /\ eeprom # <<>>

\* a poll that dispatches the play key of slot n under the function layer,
\* which calls playMacroSlot(n)
PlayKeyPoll(n) ==
    Poll /\ functionMode /\ dispatched' = <<Press(AMIGA_KEY_F6 + n)>>

\* C17: playMacroSlot(n) for a slot that is not playing, while
\* CONCURENT_MACROS other slots are playing, changes no play status, leaves
\* the macro report as it was and transmits nothing.
C17_PlayAtCapacityIsNoOp ==
    [][\A n \in Slots :
          (PlayKeyPoll(n) /\ ~macroPlayStatus[n].playing
             /\ nMacrosPlaying(State) = CONCURENT_MACROS)
          => /\ macroPlayStatus' = macroPlayStatus
             /\ macroKeyReport' = macroKeyReport
             /\ hidLog' = <<>>]_vars

\* C18: at most CONCURENT_MACROS macro slots are playing.
C18_AtMostTwoPlaying == nMacrosPlaying(State) <= CONCURENT_MACROS

\* with two slots playing, the play key of a third slot has been dispatched
\* under the function layer
C18_Witness ==
    /\ dispatched = <<Press(AMIGA_KEY_F8)>>
    /\ fnConsumed = {AMIGA_KEY_F6, AMIGA_KEY_F7, AMIGA_KEY_F8}
    /\ macroPlayStatus[0].playing /\ macroPlayStatus[1].playing
    /\ ~macroPlayStatus[2].playing

\* the macro keys the host sees as down (modifier bits and key slots)
HostMacroKeysUp(s) ==
    /\ s.host[HID_ID_MACROVKEYS] # NoReport
    /\ HoldsNothing(s.host[HID_ID_MACROVKEYS])

\* C19: playMacroSlot(n) for a playing slot n, looping or not, leaves slot n
\* not playing with index 0, and the macro report, as the program holds it
\* and as the host last received it, holds no key: every key the slot had
\* pressed is released.
C19_PlayTogglesOff ==
    \A n \in Slots :
        macroPlayStatus[n].playing
        => LET s == playMacroSlot(State, n)
           IN  /\ ~s.macroPlayStatus[n].playing
               /\ s.macroPlayStatus[n].macroIndex = 0
               /\ HoldsNothing(s.macroKeyReport)
               /\ HostMacroKeysUp(s)

\* looping slots 0 and 1 had pressed keys on the host; the play key of slot
\* 0 was pressed again: slot 0 is off, and the step transmitted a macro
\* report that holds no key
C19_Witness ==
    /\ dispatched = <<Press(AMIGA_KEY_F6)>>
    /\ macro_looping
    /\ ~macroPlayStatus[0].playing
    /\ macroPlayStatus[1].playing /\ macroPlayStatus[1].macroIndex > 0
    /\ Len(hidLog) = 1
    /\ hidLog[1].id = HID_ID_MACROVKEYS
    /\ HoldsNothing(hidLog[1].report)

\* a playback tick: loop() calls playMacro
MacroTick == pc = "playMacro" /\ pc' = "handleKeyboard"

\* the tick in which the non-looping slot n dispatches its last event
Finishes(n) ==
    /\ MacroTick
    /\ macroPlayStatus[n].playing /\ ~macroPlayStatus[n].loop
    /\ ~macroPlayStatus'[n].playing

\* the keys a macro has pressed and not released when its last event has
\* been dispatched
HeldAtEnd(m) ==
    {k \in ValidKeyCodes :
        \E i \in 1..m.length :
            /\ m.keyEvents[i].keyCode = k /\ m.keyEvents[i].isPressed # 0
            /\ \A j \in (i + 1)..m.length : m.keyEvents[j].keyCode # k}

\* report r shows key code k as down
KeyDownIn(r, k) ==
    /\ r # NoReport
    /\ IF isAmigaModifierKey(k)
       THEN Bits(keyTable[k + 1]) \cap Bits(r.modifiers) # {}
       ELSE \E i \in 1..6 : r.keys[i] = keyTable[k + 1]

\* C20: in the tick in which a non-looping slot dispatches its last event,
\* the slot becomes not playing and no key the macro still held is down any
\* more, neither in the macro report nor in the macro report the host last
\* received.
C20_EndOfMacroReleasesKeys ==
    [][\A n \in Slots :
          Finishes(n) => \A k \in HeldAtEnd(macros[n]) :
                            /\ ~KeyDownIn(macroKeyReport', k)
                            /\ ~KeyDownIn(host'[HID_ID_MACROVKEYS], k)]_vars

----------------------------------------------------------------------------
(* Playback timing.                                                        *)

\* playMacro runs its slots in this call: no recording, and MACRO_DELAY
\* milliseconds have passed since the last call that ran them
TickOpen ==
    ~recording /\ Geq32(Sub32(now, lastMacroTime), U32(MACRO_DELAY))

\* event i (from 0) of slot n is due: its delay has passed since the slot
\* was started
DueAt(n, i) ==
    Geq32(Sub32(now, macroPlayStatus[n].playStartTime),
          macros[n].keyEvents[i + 1].delay)

\* the index slot n stands at after the events that are due in index order
\* from its current index
RunEnd(n) ==
    LET from == macroPlayStatus[n].macroIndex
        len == macros[n].length
    IN  IF from >= len THEN from
        ELSE CHOOSE k \in from..len :
               /\ k = len \/ ~DueAt(n, k)
               /\ \A j \in from..(k - 1) : DueAt(n, j)

\* the events slot n has to dispatch now, in index order
DueEvents(n) ==
    IF ~macroPlayStatus[n].playing THEN <<>>
    ELSE [j \in 1..(RunEnd(n) - macroPlayStatus[n].macroIndex) |->
            LET e == macros[n].keyEvents[macroPlayStatus[n].macroIndex + j]
            IN  [code |-> e.keyCode, pressed |-> e.isPressed # 0]]

RECURSIVE DueFrom(_)
DueFrom(n) == IF n >= MACRO_SLOTS THEN <<>> ELSE DueEvents(n) \o DueFrom(n + 1)

\* C21: with robot mode off, a call of playMacro that runs the slots
\* dispatches into the macro report, slot by slot, exactly the events that
\* are due in index order from each playing slot's index (event i is due
\* when now - playStartTime >= delay[i]), each once, and leaves the slot's
\* index after them (at 0 when the end was reached); no other step
\* dispatches a macro event.
C21_EventsPlayedWhenDue ==
    [][~robotMacroMode =>
         /\ played' = IF MacroTick /\ TickOpen THEN DueFrom(0) ELSE <<>>
         /\ (MacroTick /\ TickOpen) =>
               \A n \in Slots :
                  macroPlayStatus[n].playing =>
                     macroPlayStatus'[n].macroIndex =
                        IF RunEnd(n) >= macros[n].length THEN 0 ELSE RunEnd(n)]_vars

\* 40 ms after slots 0 and 1 were started, a tick has dispatched the second
\* event of each (press A, release S), the first events having been
\* dispatched by an earlier tick
C21_Witness ==
    /\ pc = "handleKeyboard"
    /\ ~robotMacroMode
    /\ played = <<Press(AMIGA_KEY_A), Release(AMIGA_KEY_S)>>
    /\ now = U32(2 * MACRO_DELAY)

----------------------------------------------------------------------------
(* Looping playback.                                                       *)

\* the steps that stop slot n on request: its play key, stop all (Backspace),
\* start of recording (F3) and reset of all macros (Delete), each pressed
\* with the function layer on
StopRequest(n) ==
    /\ Poll /\ functionMode
    /\ dispatched' \in {<<Press(AMIGA_KEY_F6 + n)>>, <<Press(AMIGA_KEY_BACKSPACE)>>,
                        <<Press(AMIGA_KEY_F3)>>, <<Press(AMIGA_KEY_DELETE)>>}

\* the call of playMacro in which slot n dispatches its last event
ReachesEnd(n) ==
    /\ MacroTick /\ TickOpen
    /\ macroPlayStatus[n].playing
    /\ RunEnd(n) >= macros[n].length

\* C22: a slot takes its loop flag from the loop mode at the moment it is
\* started.  A playing slot with the flag set keeps flag and playing state
\* in every step but a stop request (its play key, stop all, start of
\* recording, reset of all macros), whatever the loop mode becomes, and in
\* a call of playMacro in which it reaches its end it goes back to index 0
\* with playStartTime set to the time of that call.
C22_LoopedSlotRestarts ==
    [][\A n \in Slots :
          /\ (~macroPlayStatus[n].playing /\ macroPlayStatus'[n].playing)
                => macroPlayStatus'[n].loop = macro_looping
          /\ (macroPlayStatus[n].playing /\ macroPlayStatus[n].loop) =>
                /\ ~StopRequest(n) => /\ macroPlayStatus'[n].playing
                                      /\ macroPlayStatus'[n].loop
                /\ ReachesEnd(n) => /\ macroPlayStatus'[n].macroIndex = 0
                                    /\ macroPlayStatus'[n].playStartTime = now]_vars

\* slot 0, started with loop mode on, has dispatched its last event 40 ms
\* after its start and stands at index 0 again with that time as its start
\* time, loop mode having been switched off in between
C22_Witness ==
    /\ pc = "handleKeyboard"
    /\ macroPlayStatus[0].playing /\ macroPlayStatus[0].loop
    /\ ~macro_looping
    /\ played # <<>> /\ played[1] = Press(AMIGA_KEY_A)
    /\ macroPlayStatus[0].macroIndex = 0
    /\ macroPlayStatus[0].playStartTime = U32(2 * MACRO_DELAY)

----------------------------------------------------------------------------
(* The macro store on its own: save, damage to the stored bytes, load at   *)
(* power-on.                                                               *)

MaxCfgSlots == 5
MaxCfgLen == 85
\* what is added (modulo 256) to a stored byte to damage it
CorruptDeltas == {2^i : i \in 0..7} \cup {W8 - 1}

\* event i of a macro: key codes, both flags, delays beyond 16 bits
SampleEvent(i) ==
    [keyCode |-> AMIGA_KEY_A + i, isPressed |-> i % 2, delay |-> U32((i - 1) * 70000)]
\* a macro of len events; the entries past its length are zero, as the slot
\* selection leaves them
SampleMacro(len) ==
    [keyEvents |-> [i \in 1..MAX_MACRO_LENGTH |->
                      IF i <= len THEN SampleEvent(i) ELSE ZeroEvent],
     length |-> len]
SlotContents == {SampleMacro(len) : len \in 0..MAX_MACRO_LENGTH}
\* macro arrays: the first two slots and the last one hold any of the sample
\* macros, the others are empty
StoreContents ==
    {[i \in Slots |-> IF i = 0 THEN a ELSE IF i = 1 THEN b
                      ELSE IF i = MACRO_SLOTS - 1 THEN c ELSE ZeroMacro] :
        a \in SlotContents, b \in SlotContents, c \in SlotContents}

\* what the store may hold before the first save: erased, the image of
\* earlier recordings, and that image under the version byte of the older
\* save format
OlderVersionStore == [RecordedStore EXCEPT ![EEPROM_START_ADDRESS + 1] = MACRO_SAVE_VERSION - 2]
InitialStores == {<<>>, RecordedStore, OlderVersionStore}

\* a macros array of n slots of len events, all zero
ZeroMacros(n, len) ==
    [i \in 0..(n - 1) |-> [keyEvents |-> [j \in 1..len |-> ZeroEvent], length |-> 0]]

\* the device holds macros ms in memory and e in the store, a recording
\* being in progress; the keyboard is silent
InitBench(ms, e) ==
    /\ StartsAs([setup(PowerOn(e)) EXCEPT !.macros = ms, !.recording = TRUE,
                                          !.recordingSlot = TRUE])
    /\ pc = "save"
    /\ pinb = [clk |-> 1, sp |-> 1, res |-> 1]
    /\ kbBits = <<>>
    /\ kbByte = NoByte
    /\ kbScript = <<>>
    /\ kbKeys = {}
    /\ kbQuiet = 0
    /\ bytesLeft = 0
    /\ resetsLeft = 0
    /\ ticksLeft = 0
    /\ bootsLeft = 0
    /\ keyQueue = <<>>
    /\ delayedKeyQueue = <<>>

\* saveMacrosToEEPROM()
SaveStore ==
    /\ pc = "save"
    /\ Commit(saveMacrosToEEPROM(StartStep(0)))
    /\ pc' = "saved"
    /\ UNCHANGED <<envVars, queues>>

\* one byte of the saved region takes another value
CorruptStore ==
    /\ pc = "saved"
    /\ \E addr \in 1..Len(eeprom), d \in CorruptDeltas :
         eeprom' = [eeprom EXCEPT ![addr] = (@ + d) % W8]
    /\ pc' = "corrupted"
    /\ UNCHANGED <<keyboardState, handshakeTimer, currentKeyCode, bitIndex,
                   interruptsEnabled, ddrbSP, keyReport, prevkeyReport,
                   macroKeyReport, macroPrevkeyReport, multimediaKeys, functionMode,
                   ignoreNextRelease, recording, recordingSlot, macro_looping,
                   recordingMacroSlot, recordingMacroIndex, macros, macroPlayStatus,
                   robotMacroMode, lastMacroTime, now, hidLog, host, tableIdx,
                   dispatched, fnConsumed, played, session, eventIdx, envVars,
                   queues>>

\* power-on: RAM starts zeroed and setup() loads the store
BootStore ==
    /\ pc \in {"save", "saved", "corrupted"}
    /\ Commit(setup(PowerOn(eeprom)))
    /\ pc' = "booted"
    /\ UNCHANGED <<envVars, queues>>

InitStore == \E ms \in StoreContents, e \in InitialStores : InitBench(ms, e)
NextStore == SaveStore \/ CorruptStore \/ BootStore
SpecStore == InitStore /\ [][NextStore]_vars

\* the same for every dimension of the macros array
InitSave ==
    \E n \in 1..MaxCfgSlots, len \in 1..MaxCfgLen, e \in {<<>>, RecordedStore} :
        InitBench(ZeroMacros(n, len), e)
NextSave == SaveStore
SpecSave == InitSave /\ [][NextSave]_vars

----------------------------------------------------------------------------
(* Save and load.                                                          *)

\* C23: saving leaves the macros in memory as they are, and a power-on that
\* follows the save (RAM zeroed, then loadMacrosFromEEPROM) is accepted by
\* the load and gives back every slot exactly as it was saved: all events,
\* also those past the length, and the length.
C23_SaveLoadRoundTrip ==
    [][/\ (pc = "save" /\ pc' = "saved") => macros' = macros
       /\ (pc = "saved" /\ pc' = "booted") =>
             /\ LoadAccepts(eeprom)
             /\ macros' = macros]_vars

\* a full slot with delays beyond 16 bits, an empty slot and a slot with one
\* event have been saved and loaded back at power-on
C23_Witness ==
    /\ pc = "booted"
    /\ LoadAccepts(eeprom)
    /\ macros[0] = SampleMacro(MAX_MACRO_LENGTH)
    /\ macros[0].keyEvents[MAX_MACRO_LENGTH].delay.hi > 0
    /\ macros[1] = SampleMacro(0)
    /\ macros[MACRO_SLOTS - 1] = SampleMacro(1)

\* every slot zeroed: all bytes of the macros array are 0
AllZero(ms) ==
    LET bytes == MacroBytes(ms, 0)
    IN  Len(bytes) = SizeOfMacros /\ \A k \in 1..SizeOfMacros : bytes[k] = 0

\* C24: a power-on after one byte of the saved region (version byte, size
\* field, slot data or checksum) was changed to another value: the load
\* returns false and every slot is zeroed.
C24_DamagedByteRejected ==
    [][(pc = "corrupted" /\ pc' = "booted") =>
          /\ ~LoadAccepts(eeprom)
          /\ AllZero(macros')]_vars

\* the first key code of slot 0 was changed in a store saved with a full
\* slot 0; version and size are intact; the power-on has left every slot
\* zeroed
C24_Witness ==
    /\ pc = "booted"
    /\ EepromRead(eeprom, EEPROM_START_ADDRESS, 1 + SIZEOF_size_t)
          = <<MACRO_SAVE_VERSION, SizeOfMacros % W8, SizeOfMacros \div W8>>
    /\ StoredMacros(eeprom)[0] =
          [SampleMacro(MAX_MACRO_LENGTH) EXCEPT !.keyEvents[1].keyCode = @ + 1]
    /\ AllZero(macros)

\* the location of the checksum in the store
StoredChecksum(e) ==
    FromBytes32(EepromRead(e, EEPROM_START_ADDRESS + 1 + SIZEOF_size_t + SizeOfMacros, 4))

\* C25: whatever the store holds, power-on ends in one of two states: the
\* load returns true, version byte, size field and checksum of the store
\* match and the macros in memory are the stored slot data, whose checksum
\* is the stored one; or the load returns false and every slot is zeroed.
C25_LoadAllOrNothing ==
    [][(pc # "booted" /\ pc' = "booted") =>
          \/ /\ LoadAccepts(eeprom)
             /\ EepromGet(eeprom, EEPROM_START_ADDRESS) = MACRO_SAVE_VERSION
             /\ EepromRead(eeprom, EEPROM_START_ADDRESS + 1, SIZEOF_size_t)
                   = <<SizeOfMacros % W8, SizeOfMacros \div W8>>
             /\ macros' = StoredMacros(eeprom)
             /\ adler32(macros') = StoredChecksum(eeprom)
          \/ /\ ~LoadAccepts(eeprom)
             /\ AllZero(macros')]_vars

\* power-on with a store written under the older version byte: the slot
\* data in the store is not empty, every slot in memory is zeroed
C25_Witness ==
    /\ pc = "booted"
    /\ eeprom = OlderVersionStore
    /\ ~AllZero(StoredMacros(eeprom))
    /\ AllZero(macros)

\* the bytes a save has to write for the array ms: version byte, size field,
\* the array, checksum
SavedLength(ms) == 1 + SIZEOF_size_t + SizeOf(ms) + 4

\* C26: for every number of slots and every slot length, a save leaves the
\* store as it is when version byte, size field, macro bytes and checksum
\* together exceed SIZE_OF_EEPROM; otherwise it writes them from
\* EEPROM_START_ADDRESS on, no byte after them and no address from
\* SIZE_OF_EEPROM on.
C26_SaveWithinStore ==
    [][(pc = "save" /\ pc' = "saved") =>
          IF SavedLength(macros) > SIZE_OF_EEPROM
          THEN eeprom' = eeprom
          ELSE /\ Len(eeprom') <= SIZE_OF_EEPROM
               /\ Len(eeprom') >= EEPROM_START_ADDRESS + SavedLength(macros)
               /\ eeprom'[EEPROM_START_ADDRESS + 1] = MACRO_SAVE_VERSION
               /\ \A k \in 1..Len(eeprom') :
                     k > EEPROM_START_ADDRESS + SavedLength(macros)
                        => k <= Len(eeprom) /\ eeprom'[k] = eeprom[k]]_vars

\* a save was asked for with two slots of 85 events: the array alone (1022
\* bytes) would fit, with version, size and checksum it does not, and the
\* store still holds what it held
C26_Witness ==
    /\ pc = "saved"
    /\ SizeOf(macros) <= SIZE_OF_EEPROM
    /\ SavedLength(macros) > SIZE_OF_EEPROM
    /\ eeprom = RecordedStore

----------------------------------------------------------------------------
(* Persistence.                                                            *)

\* C27: whenever no recording is in progress, the store holds the macros in
\* memory: power-on with the current store (RAM zeroed, setup() loading the
\* store) would give exactly the macros array the device has now.
C27_PowerCycleLosesNothing ==
    ~recording => setup(PowerOn(eeprom)).macros = macros

\* slot 0 was recorded until it was full, the power was cut and restored, and
\* the slot is in memory again (nothing has been sent to the host since)
C27_Witness ==
    /\ bootsLeft = 0
    /\ host = NoHost
    /\ ~recording
    /\ macros[0].length = MAX_MACRO_LENGTH
    /\ macros[0].keyEvents[1].keyCode = AMIGA_KEY_A

----------------------------------------------------------------------------
(* Slot selection.                                                         *)

\* C30: while a recording waits for its slot (recording, no slot chosen), a
\* key-down of F6 + i makes slot i the active slot, zeroes it and leaves the
\* other slots as they are; a key-down of any other key chooses no slot and
\* changes no macro.
C30_SlotKeySelects ==
    [][(KeyDownPoll /\ recording /\ ~recordingSlot) =>
          LET k == dispatched'[1].code
          IN  IF k \in AMIGA_KEY_F6..AMIGA_KEY_F10
              THEN /\ recordingSlot'
                   /\ recordingMacroSlot' = k - AMIGA_KEY_F6
                   /\ macros' = [macros EXCEPT ![k - AMIGA_KEY_F6] = ZeroMacro]
              ELSE /\ ~recordingSlot'
                   /\ macros' = macros]_vars

----------------------------------------------------------------------------
(* The queue sketch (MACRO_SAVE_VERSION 2, the first sketch of the file).  *)
(* handleKeyboard pushes the decoded key events onto keyQueue, consumeKeys *)
(* takes them from its head and hands them to processKeyEvent; a release   *)
(* that arrives while its press is still queued is kept on the press and   *)
(* goes through delayedKeyQueue.  The keyboard of this scenario has no     *)
(* Help key and starts no recording, so processKeyEvent goes straight to   *)
(* keyPress and keyRelease; the reset line stays high; the queues stay far *)
(* below their capacity, where push appends at the tail.                   *)

\* millis() as the int32_t a KeyEvent stores
Millis(t) == IF t.hi < W16 \div 2 THEN t.hi * W16 + t.lo ELSE (t.hi - W16) * W16 + t.lo

\* the KeyEvent handleKeyboard builds for byte b at time t; n numbers the
\* events in the order of their arrival
KeyEventOf(b, t, n) ==
    [keyCode |-> b.code, isPressed |-> b.pressed,
     pressTime |-> IF b.pressed THEN Millis(t) ELSE 0,
     releaseTime |-> IF b.pressed THEN 0 ELSE Millis(t), n |-> n]

\* mapAmigaToHIDKey: the key table of this sketch holds HID usage codes for
\* the modifier keys
mapAmigaToHIDKey(k) ==
    IF k >= AMIGA_KEY_COUNT THEN 0
    ELSE IF k >= AMIGA_KEY_SHIFT_LEFT
    THEN <<225, 229, 57, 224, 226, 230, 227, 231>>[k - AMIGA_KEY_SHIFT_LEFT + 1]
    ELSE keyTable[k + 1]

isHIDreportfull(report) == \A i \in 1..6 : report.keys[i] # 0

addAmigaKeyToQueue(q, e) ==
    IF e.keyCode < AMIGA_KEY_COUNT THEN [q EXCEPT !.keyQueue = Append(@, e)] ELSE q

\* updateKeyEventReleaseTime: the index of the youngest queued event with
\* this key code and no release time, 0 if there is none
UnreleasedIndex(queue, keycode) ==
    LET hits == {i \in 1..Len(queue) :
                   queue[i].keyCode = keycode /\ queue[i].releaseTime = 0}
    IN  IF hits = {} THEN 0 ELSE CHOOSE i \in hits : \A j \in hits : j <= i

\* the branch of handleKeyboard that has sampled the last bit of byte b
decodedByte(q, b, n) ==
    IF b.pressed THEN addAmigaKeyToQueue(q, KeyEventOf(b, q.now, n))
    ELSE IF UnreleasedIndex(q.keyQueue, b.code) # 0
    THEN [q EXCEPT !.keyQueue[UnreleasedIndex(q.keyQueue, b.code)].releaseTime =
                      Millis(q.now)]
    ELSE addAmigaKeyToQueue(q, KeyEventOf(b, q.now, n))

addAmigaKeyToReleaseQueue(q, e) ==
    [q EXCEPT !.delayedKeyQueue =
        Append(@, [e EXCEPT !.isPressed = FALSE,
                            !.releaseTime = Millis(q.now) + (e.releaseTime - e.pressTime)])]

\* numPlayingMacros over the play status of the slots
numPlayingMacros(status) == Cardinality({i \in Slots : status[i].playing})

\* playMacroSlot of this sketch.  The field queued, which only playMacro
\* sets, is not kept: it is false throughout.
QueuePlayMacroSlot(q, slot) ==
    IF ~q.macroPlayStatus[slot].playing
       /\ numPlayingMacros(q.macroPlayStatus) <= MAX_CONCURENT_MACROS
    THEN [q EXCEPT !.macroPlayStatus[slot].loop = q.macro_looping,
                   !.macroPlayStatus[slot].playing = TRUE]
    ELSE [q EXCEPT !.macroPlayStatus[slot].playing = FALSE,
                   !.macroPlayStatus[slot].loop = FALSE,
                   !.keyReport = EmptyReport,
                   !.keyQueue = <<>>,
                   !.delayedKeyQueue = <<>>]

\* handleFunctionModeKey of this sketch, for the keys of the scenarios: F5
\* toggles loop mode, F6 to F10 play a slot
QueueHandleFunctionModeKey(q, keycode) ==
    IF keycode = AMIGA_KEY_F5 THEN [q EXCEPT !.macro_looping = ~@]
    ELSE IF keycode >= AMIGA_KEY_F6 /\ keycode <= AMIGA_KEY_F10
    THEN QueuePlayMacroSlot(q, macroSlotFromKeyCode(keycode))
    ELSE q

\* processKeyEvent, the call noted with the event it was made for; no
\* recording is going on
processKeyEvent(q, e) ==
    LET hidCode == mapAmigaToHIDKey(e.keyCode)
        slot == FirstSlot(q.keyReport.keys, 0)
        q1 == [q EXCEPT !.dispatched = Append(@, e)]
    IN  IF e.keyCode = AMIGA_KEY_HELP THEN [q1 EXCEPT !.functionMode = e.isPressed]
        ELSE IF e.isPressed /\ q.functionMode
        THEN QueueHandleFunctionModeKey(q1, e.keyCode)
        ELSE IF e.isPressed
        THEN IF isAmigaModifierKey(e.keyCode)
             THEN [q1 EXCEPT !.keyReport.modifiers = BitOr(@, hidCode)]
             ELSE IF slot # 0 THEN [q1 EXCEPT !.keyReport.keys[slot] = hidCode]
             ELSE q1
        ELSE IF isAmigaModifierKey(e.keyCode)
             THEN [q1 EXCEPT !.keyReport.modifiers = BitAndNot(@, hidCode)]
             ELSE [q1 EXCEPT !.keyReport.keys =
                     [i \in 1..6 |-> IF @[i] = hidCode THEN 0 ELSE @[i]]]

\* the while loop of consumeKeys.  Its test reads !isHIDreportfull, the name
\* of the function without a call: the address of a function, never null,
\* so that the first operand is always false.
RECURSIVE consumeLoop(_)
consumeLoop(q) ==
    IF q.keyQueue = <<>> THEN q
    ELSE LET e == Head(q.keyQueue)
             q1 == [q EXCEPT !.keyQueue = Tail(@)]
         IN  IF FALSE \/ ~e.isPressed \/ isAmigaModifierKey(e.keyCode)
             THEN consumeLoop(processKeyEvent(
                    IF e.isPressed /\ e.releaseTime > 0
                    THEN addAmigaKeyToReleaseQueue(q1, e) ELSE q1, e))
             ELSE q

\* a for loop that does not put back the entries that are not due
RECURSIVE delayLoopDropsEarly(_, _, _)
delayLoopDropsEarly(q, i, ticks) ==
    IF i = 0 THEN q
    ELSE LET e == Head(q.delayedKeyQueue)
             q1 == [q EXCEPT !.delayedKeyQueue = Tail(@),
                             !.now = IF i \in ticks THEN Add32(@, 1) ELSE @]
         IN  delayLoopDropsEarly(IF Millis(q1.now) >= e.releaseTime
                                 THEN processKeyEvent(q1, e) ELSE q1,
                                 i - 1, ticks)

\* the for loop of consumeDelayKeys with i entries still to examine.  Each
\* iteration reads millis() anew: the clock has moved on by a millisecond
\* before the iterations whose count is in ticks.
RECURSIVE delayLoop(_, _, _)
delayLoop(q, i, ticks) ==
    IF i = 0 THEN q
    ELSE LET e == Head(q.delayedKeyQueue)
             q1 == [q EXCEPT !.delayedKeyQueue = Tail(@),
                             !.now = IF i \in ticks THEN Add32(@, 1) ELSE @]
         IN  delayLoop(IF Millis(q1.now) >= e.releaseTime THEN processKeyEvent(q1, e)
                       ELSE [q1 EXCEPT !.delayedKeyQueue = Append(@, e)],
                       i - 1, ticks)

\* the state of the queue sketch at the start of a step, and back
QueueState ==
    [keyQueue |-> keyQueue, delayedKeyQueue |-> delayedKeyQueue,
     keyReport |-> keyReport, now |-> now, dispatched |-> <<>>,
     functionMode |-> functionMode, macro_looping |-> macro_looping,
     macroPlayStatus |-> macroPlayStatus]
QueueCommit(q) ==
    /\ keyQueue' = q.keyQueue
    /\ delayedKeyQueue' = q.delayedKeyQueue
    /\ keyReport' = q.keyReport
    /\ now' = q.now
    /\ dispatched' = q.dispatched
    /\ functionMode' = q.functionMode
    /\ macro_looping' = q.macro_looping
    /\ macroPlayStatus' = q.macroPlayStatus
    /\ UNCHANGED <<keyboardState, handshakeTimer, currentKeyCode, bitIndex,
                   interruptsEnabled, ddrbSP, prevkeyReport, macroKeyReport,
                   macroPrevkeyReport, multimediaKeys,
                   ignoreNextRelease, recording, recordingSlot,
                   recordingMacroSlot, recordingMacroIndex, macros,
                   robotMacroMode, lastMacroTime, eeprom, hidLog, host, tableIdx,
                   fnConsumed, played, session, eventIdx, pinb, kbBits, kbScript, kbKeys, kbQuiet,
                   resetsLeft, bootsLeft>>

\* keys of the scenario: a letter and a modifier, down and up
QueueKeys ==
    {Press(AMIGA_KEY_A), Release(AMIGA_KEY_A),
     Press(AMIGA_KEY_SHIFT_LEFT), Release(AMIGA_KEY_SHIFT_LEFT)}

\* handleKeyboard: the clock may have moved on by a millisecond; the call
\* may be the one that completes a byte
QueueHandleKeyboard ==
    /\ pc = "handleKeyboard"
    /\ \E dt \in IF ticksLeft > 0 THEN {0, 1} ELSE {0} :
       \E b \in IF bytesLeft > 0 /\ Add32(now, dt) # Zero32
                THEN QueueKeys \cup {NoByte} ELSE {NoByte} :
         LET q == [QueueState EXCEPT !.now = Add32(now, dt)]
         IN  /\ QueueCommit(IF b = NoByte THEN q ELSE decodedByte(q, b, bytesLeft))
             /\ kbByte' = b
             /\ ticksLeft' = ticksLeft - dt
             /\ bytesLeft' = IF b = NoByte THEN bytesLeft ELSE bytesLeft - 1
    /\ pc' = "consumeKeys"

\* consumeKeys: due tells whether CONSUME_KEY_TIMER has passed
QueueConsumeKeysWhen(due) ==
    /\ pc = "consumeKeys"
    /\ QueueCommit(IF due THEN consumeLoop(QueueState) ELSE QueueState)
    /\ pc' = "consumeDelayKeys"
    /\ UNCHANGED <<kbByte, ticksLeft, bytesLeft>>

QueueConsumeKeys == \E due \in BOOLEAN : QueueConsumeKeysWhen(due)

QueueConsumeDelayKeys ==
    /\ pc = "consumeDelayKeys"
    /\ \/ /\ QueueCommit(QueueState)
          /\ UNCHANGED ticksLeft
       \/ \E ticks \in {{}} \cup (IF ticksLeft > 0
                                  THEN {{i} : i \in 1..Len(delayedKeyQueue)} ELSE {}) :
             /\ QueueCommit(delayLoop(QueueState, Len(delayedKeyQueue), ticks))
             /\ ticksLeft' = ticksLeft - Cardinality(ticks)
    /\ pc' = "handleKeyboard"
    /\ UNCHANGED <<kbByte, bytesLeft>>

NextQueue == QueueHandleKeyboard \/ QueueConsumeKeys \/ QueueConsumeDelayKeys
\* loop() keeps running, and micros() keeps counting: again and again a call
\* of consumeKeys finds CONSUME_KEY_TIMER elapsed
SpecQueue ==
    InitWith(<<>>, 0, QueueKeys, MaxBytes + 1, 0, MaxTicks + 1, 0)
              /\ [][NextQueue]_vars /\ WF_vars(NextQueue)
              /\ SF_vars(QueueConsumeKeysWhen(TRUE))

\* C29: as long as loop() keeps running, every event in keyQueue leaves it
\* again while the report has a free slot, handed to processKeyEvent once
\* and in queue order.  Call by call: the events a call of consumeKeys takes
\* from the queue are those at its head, each handed to processKeyEvent once
\* and in order, and a call that finds CONSUME_KEY_TIMER elapsed leaves the
\* queue empty or the report full.
C29_QueuedEventConsumed ==
    [][pc = "consumeKeys" =>
         /\ \E k \in 0..Len(keyQueue) :
               /\ keyQueue' = SubSeq(keyQueue, k + 1, Len(keyQueue))
               /\ dispatched' = SubSeq(keyQueue, 1, k)
         /\ QueueConsumeKeysWhen(TRUE) =>
               keyQueue' = <<>> \/ isHIDreportfull(keyReport')]_vars

----------------------------------------------------------------------------
(* Recording sessions (v4 sketch).                                         *)

\* a step of loop() that ends a recording whose slot was chosen
StopsSession ==
    recording /\ recordingSlot /\ ~recording' /\ bootsLeft' = bootsLeft

\* C31: when stopRecording ends a recording into a slot, every event i of
\* the slot (i < length) carries the clock at which it was recorded less the
\* clock at which the first event of the recording was recorded, modulo
\* 2^32, whatever commands were given during the recording.
C31_DelaysSinceFirstEvent ==
    [][StopsSession =>
          LET m == macros'[recordingMacroSlot]
          IN  \A i \in 1..m.length :
                 /\ i <= Len(session')
                 /\ m.keyEvents[i].delay =
                       Sub32(session'[i].delay, session'[1].delay)]_vars

\* C38: while a recording has its slot, recordingMacroIndex equals the
\* length of the slot and every event below that length is one recorded in
\* this recording, whatever commands were given during it (Help+Del, the
\* reset of all macros, included).
C38_IndexEqualsLength ==
    (recording /\ recordingSlot) =>
        LET m == macros[recordingMacroSlot]
        IN  /\ recordingMacroIndex = m.length
            /\ Len(session) = m.length
            /\ \A i \in 1..m.length : m.keyEvents[i] = session[i]

----------------------------------------------------------------------------
(* The live report when it is full.                                        *)

\* C32: with all six key slots of the live report in use, keyPress of a key
\* that is not a modifier leaves the live report as it is, all six keys
\* still in their slots, and hands nothing to the USB driver.
C32_FullReportDropsPress ==
    (\A i \in 1..6 : keyReport.keys[i] # 0) =>
        \A k \in ValidKeyCodes :
            ~isAmigaModifierKey(k) =>
                /\ keyPress(State, k).keyReport = keyReport
                /\ keyPress(State, k).hidLog = hidLog

\* six keys are down and the keyboard has pressed A again: the press has
\* been dispatched to keyPress (which has looked up A in keyTable), nothing
\* was transmitted and the six keys are still down
C32_Witness ==
    /\ kbScript = <<>>
    /\ dispatched = <<Press(AMIGA_KEY_A)>>
    /\ AMIGA_KEY_A \in tableIdx
    /\ ~functionMode
    /\ hidLog = <<>>
    /\ \A i \in 1..6 : keyReport.keys[i] # 0

----------------------------------------------------------------------------
(* The decoder, the interrupt mask and the data line.                      *)

\* C33: interrupts are disabled only while the decoder is in READ; in
\* SYNCH_HI, SYNCH_LO, HANDSHAKE, WAIT_LO and WAIT_RES they are enabled.
C33_InterruptsOffOnlyInRead ==
    keyboardState # "READ" => interruptsEnabled

\* C34: the data line is an output (driven low) only while the decoder is
\* in HANDSHAKE; in every other decoder state, WAIT_RES after a reset during
\* the handshake included, it is an input.
C34_DataLineOutputOnlyInHandshake ==
    keyboardState # "HANDSHAKE" => ~ddrbSP

----------------------------------------------------------------------------
(* A byte cut short by a reset.                                            *)

\* the key code accumulated from the first n bits of a byte with key code c
\* (the wire carries bits 6 down to 0, then the up/down flag)
PartialCode(c, n) == ((c % 128) \div 2^(7 - n)) * 2^(7 - n)

\* While the decoder waits for or reads a bit, currentKeyCode holds the bits
\* sampled of the byte now on the wire and nothing else, and bitIndex counts
\* the data bits still to come: 0 and 7 before the first sample.
BuiltFromCurrentByte ==
    keyboardState \in {"WAIT_LO", "READ"} =>
        LET n == IF kbBits = <<>> THEN 0 ELSE 8 - Len(kbBits)
        IN  /\ bitIndex = 7 - n
            /\ currentKeyCode = (IF n = 0 THEN 0 ELSE PartialCode(kbByte.code, n))

\* C40: the poll that sees the reset line asserted dispatches no key event,
\* whatever part of a byte has been received; from WAIT_RES the decoder
\* reaches the first sample of a byte only with currentKeyCode = 0 and
\* bitIndex = 7, so that every key event dispatched after a reset carries
\* the byte sent after it and no bit received before it.
C40_ResetDiscardsPartialByte ==
    [][/\ (Poll /\ pinb'.res = 0) => dispatched' = <<>>
       /\ BuiltFromCurrentByte'
       /\ dispatched' # <<>> => dispatched' = <<kbByte>>]_vars

\* a reset has cut a byte short: the decoder is in WAIT_RES, the keyboard
\* has stopped sending, and currentKeyCode and bitIndex still hold what was
\* received of the byte
C40_Witness ==
    /\ keyboardState = "WAIT_RES"
    /\ pinb.res = 0
    /\ kbByte # NoByte /\ kbBits = <<>>
    /\ currentKeyCode # 0 /\ bitIndex < 7
    /\ dispatched = <<>>

----------------------------------------------------------------------------
(* Stopping one of two playing slots.                                      *)

\* the keys the playback of slot n has pressed and not released so far
HeldBy(n) ==
    LET m == macros[n]
        upto == macroPlayStatus[n].macroIndex
    IN  {k \in ValidKeyCodes :
            \E i \in 1..upto :
                /\ m.keyEvents[i].keyCode = k /\ m.keyEvents[i].isPressed # 0
                /\ \A j \in (i + 1)..upto : m.keyEvents[j].keyCode # k}

\* C39: with slots n and m playing, playMacroSlot(n) leaves slot m playing
\* as it was, and every key the playback of slot m holds down in the macro
\* report is still down in it.
C39_StopLeavesOtherSlot ==
    \A n, m \in Slots :
        (n # m /\ macroPlayStatus[n].playing /\ macroPlayStatus[m].playing)
        => LET s == playMacroSlot(State, n)
           IN  /\ s.macroPlayStatus[m] = macroPlayStatus[m]
               /\ \A k \in HeldBy(m) :
                     KeyDownIn(macroKeyReport, k) => KeyDownIn(s.macroKeyReport, k)

----------------------------------------------------------------------------
(* Bounds of the macro arrays.                                             *)

\* C37: recordingMacroSlot stays below MACRO_SLOTS, recordingMacroIndex and
\* the length of every slot never exceed MAX_MACRO_LENGTH, and every element
\* macros[s].keyEvents[i] read or written, by slot choice, record_key,
\* stopRecording and playMacro, has s < MACRO_SLOTS and i < MAX_MACRO_LENGTH.
C37_MacroIndicesInRange ==
    /\ recordingMacroSlot < MACRO_SLOTS
    /\ recordingMacroIndex <= MAX_MACRO_LENGTH
    /\ \A n \in Slots : macros[n].length <= MAX_MACRO_LENGTH
    /\ \A p \in eventIdx : p[1] < MACRO_SLOTS /\ p[2] < MAX_MACRO_LENGTH

\* after a power cycle the macro recorded to capacity plays from the store:
\* a playback tick has read and dispatched its last element
C37_Witness ==
    /\ bootsLeft < MaxBoots
    /\ pc = "handleKeyboard"
    /\ macros[0].length = MAX_MACRO_LENGTH
    /\ <<0, MAX_MACRO_LENGTH - 1>> \in eventIdx
    /\ played # <<>>

----------------------------------------------------------------------------
(* One run of consumeDelayKeys (queue sketch).                             *)

\* the clock the iteration that examines entry j of the queue reads, when
\* the run starts with the queue as it stands
ExaminedAt(j, ticks) ==
    LET i == Len(delayedKeyQueue) - j + 1
    IN  Millis(IF \E k \in ticks : k >= i THEN Add32(now, 1) ELSE now)

\* the entries of seq at the indices in idx, in the order of seq
Pick(seq, idx) ==
    LET ix == SelectSeq([j \in 1..Len(seq) |-> j], LAMBDA j : j \in idx)
    IN  [k \in 1..Len(ix) |-> seq[ix[k]]]

\* C35: one run of consumeDelayKeys hands to processKeyEvent, once each, the
\* entries of the delayed queue whose releaseTime is not after the clock the
\* run reads for them, and removes them; it keeps every other entry, once
\* and in the same relative order; the queue does not grow.
C35_DueReleasesDispatched ==
    pc = "consumeDelayKeys" =>
        \A ticks \in {{}} \cup {{i} : i \in 1..Len(delayedKeyQueue)} :
            LET n == Len(delayedKeyQueue)
                r == delayLoop(QueueState, n, ticks)
                dueIdx == {j \in 1..n :
                             delayedKeyQueue[j].releaseTime <= ExaminedAt(j, ticks)}
            IN  /\ r.dispatched = Pick(delayedKeyQueue, dueIdx)
                /\ r.delayedKeyQueue = Pick(delayedKeyQueue, (1..n) \ dueIdx)
                /\ Len(r.delayedKeyQueue) <= n

\* a run of consumeDelayKeys has just dispatched the release of a key whose
\* time had come and kept the release of a later key stroke in the queue
C35_Witness ==
    /\ pc = "handleKeyboard"
    /\ Len(dispatched) = 1 /\ ~dispatched[1].isPressed
    /\ dispatched[1].releaseTime <= Millis(now)
    /\ Len(delayedKeyQueue) = 1
    /\ delayedKeyQueue[1].releaseTime > Millis(now)

----------------------------------------------------------------------------
(* Playing slots of the queue sketch.                                      *)

\* events handed to processKeyEvent in one run
MaxCommands == 5

\* the events of the play commands: Help down and up, F5, F6 to F10
QueueCommands ==
    {Press(AMIGA_KEY_HELP), Release(AMIGA_KEY_HELP), Press(AMIGA_KEY_F5)}
        \cup {Press(k) : k \in AMIGA_KEY_F6..AMIGA_KEY_F10}

\* the dispatch stage hands one event to processKeyEvent
QueueProcessKeyEvent ==
    /\ bytesLeft > 0
    /\ \E b \in QueueCommands :
         QueueCommit(processKeyEvent(QueueState, KeyEventOf(b, now, bytesLeft)))
    /\ bytesLeft' = bytesLeft - 1
    /\ UNCHANGED <<pc, kbByte, ticksLeft>>

SpecQueuePlay ==
    /\ InitWith(<<>>, 0, {}, MaxCommands, 0, 0, 0)
    /\ [][QueueProcessKeyEvent]_vars

====
